---- MODULE Spec2Model ----
(***************************************************************************)
(* Model of the AI suggestion client (src/services/geminiService.ts):      *)
(* safeGenerateContentWithFetch with its retry/backoff recursion, and the  *)
(* four exported operations that parse and check its result.               *)
(*                                                                         *)
(* JavaScript strings whose contents the code inspects (error messages,    *)
(* queries) are tuples of one-character strings, so that                   *)
(* String.prototype.includes and trim are computed, not assumed.           *)
(* JavaScript values of mixed type are tagged records: [k |-> "null"],     *)
(* [k |-> "num"], [k |-> "obj", f |-> fields], [k |-> "arr", items |-> s]. *)
(***************************************************************************)
EXTENDS Integers, Sequences, FiniteSets, TLC

VARIABLES
    apiKey,     \* module-level credential read from the environment
    pc,         \* position of the call: "idle", "sent", "waiting", "done"
    op,         \* exported operation being called
    arg,        \* its arguments
    retries,    \* parameter `retries` of the current invocation
    delay,      \* parameter `delay` of the current invocation (ms)
    requests,   \* number of fetch() requests issued by the call
    waits,      \* the backoff delays waited by the call, in order
    log,        \* the endpoint's answers to the call's requests, in order
    raw,        \* value returned by safeGenerateContentWithFetch
    ret,        \* value returned by the exported operation
    \* the SDK revision of the service
    sdkPc,      \* position of the call: "idle", "sent", "done"
    sdkOp,      \* exported operation being called
    sdkArg,     \* its arguments
    sdkRequests,\* number of generateContent requests issued by the call
    sdkRet,     \* value returned by the exported operation
    \* the add form (AddItemForm)
    query,          \* state `query`
    suggestions,    \* state `suggestions`
    showSuggestions,\* state `showSuggestions`
    isLoading,      \* state `isLoading`
    error,          \* state `error`
    timers,         \* pending debounce timers: the query each captured and its remaining time
    sinceChange,    \* time since `query` last changed (ms, saturating at the quiet period)
    issued,         \* number of autocomplete requests issued
    inflight,       \* autocomplete requests in flight
    applied,        \* the autocomplete responses applied to the state, in order of resolution
    submitted,      \* the pending fetchMediaDetails call of handleSubmit, if any
    submitData,     \* the response the last resolved fetchMediaDetails call received
    submitResult,   \* what that call returned
    added,          \* the record last passed to onAddItem
    \* the record store, the list App displays and the item cards
    backend,        \* which App talks to the store: the Firestore one or the REST one
    card,           \* which revision of the item card renders the list
    store,          \* the stored records, by id
    mediaItems,     \* state `mediaItems` of App, by id
    appError,       \* state `error` of App
    sent,           \* number of requests sent to the REST server
    restRequests,   \* requests on their way to the REST server
    restResponses,  \* responses on their way back to the REST client
    clock,          \* the REST server's clock, for updatedAt
    \* the Suggestions panel
    movieSuggestions,     \* state `movieSuggestions`
    bookSuggestions,      \* state `bookSuggestions`
    surprise,             \* state `surprise`
    panelIsLoading,       \* state `isLoading` of the panel
    isSurpriseLoading,    \* state `isSurpriseLoading`
    panelShowSuggestions, \* state `showSuggestions` of the panel
    clicks,               \* number of clicks that started requests
    genCalls,             \* invocations of generateSuggestions waiting in Promise.all
    surpriseCalls,        \* invocations of handleSurpriseMe waiting for their request
    \* the Firestore app with its authentication
    authUser,       \* the user Firebase Auth holds as signed in, "none" if nobody
    authEvents,     \* auth states not yet delivered to the onAuthStateChanged callback
    signIns,        \* number of sign-ins so far
    userId,         \* state `userId` of App, "null" if null
    isAuthReady,    \* state `isAuthReady`
    effectDue,      \* the listener effect has still to run for the current [isAuthReady, userId]
    signOutPending, \* handleSignOut is past its await and has still to continue
    listeners,      \* the users on whose collection an onSnapshot listener is subscribed
    snapshotDue,    \* the listener has a snapshot that is not delivered yet
    collections,    \* the documents of each user's collection
    calls,        \* number of handler calls so far; a created document takes it as its id
    fireItems,      \* state `mediaItems` of the Firestore app
    fireError,      \* state `error` of the Firestore app
    fireLoading     \* state `isLoading` of the Firestore app

aiVars == <<apiKey, pc, op, arg, retries, delay, requests, waits, log, raw, ret>>
sdkVars == <<sdkPc, sdkOp, sdkArg, sdkRequests, sdkRet>>
formVars == <<query, suggestions, showSuggestions, isLoading, error, timers, sinceChange,
              issued, inflight, applied, submitted, submitData, submitResult, added>>
storeVars == <<backend, card, store, mediaItems, appError, sent, restRequests, restResponses, clock>>
panelVars == <<movieSuggestions, bookSuggestions, surprise, panelIsLoading, isSurpriseLoading,
               panelShowSuggestions, clicks, genCalls, surpriseCalls>>
fireVars == <<authUser, authEvents, signIns, userId, isAuthReady, effectDue, signOutPending,
              listeners, snapshotDue, collections, calls, fireItems, fireError, fireLoading>>
vars == <<aiVars, sdkVars, formVars, storeVars, panelVars, fireVars>>
\* The variables of the other components, for each component.
nonAiVars == <<sdkVars, formVars, storeVars, panelVars, fireVars>>
nonSdkVars == <<aiVars, formVars, storeVars, panelVars, fireVars>>
nonFormVars == <<aiVars, sdkVars, storeVars, panelVars, fireVars>>
nonStoreVars == <<aiVars, sdkVars, formVars, panelVars, fireVars>>
nonPanelVars == <<aiVars, sdkVars, formVars, storeVars, fireVars>>
nonFireVars == <<aiVars, sdkVars, formVars, storeVars, panelVars>>

\* Longest array the endpoint's text payload parses to.
MaxItems == 2
\* Most autocomplete requests the add form issues.
MaxRequests == 2
\* Number of records in the store.
MaxDocs == 2
\* Most requests sent to the REST server.
MaxSent == 3
\* Most clicks on the Suggestions panel that start requests.
MaxClicks == 3
\* Most calls of the Firestore handlers.
MaxCalls == 2
\* Most sign-ins.
MaxSignIns == 1
\* Most requests of the REST client with add and delete.
MaxFetches == 2

----------------------------------------------------------------------------
(* Strings *)

NeedleNetwork == <<"n", "e", "t", "w", "o", "r", "k">>
NeedleFailedToFetch == <<"f", "a", "i", "l", "e", "d", " ", "t", "o", " ", "f", "e", "t", "c", "h">>

\* Messages of the TypeError a rejected fetch() carries.
MsgChromeFailedToFetch == <<"F", "a", "i", "l", "e", "d", " ", "t", "o", " ", "f", "e", "t", "c", "h">>
MsgFirefoxNetworkError == <<"N", "e", "t", "w", "o", "r", "k", "E", "r", "r", "o", "r", " ", "w", "h", "e", "n", " ", "a", "t", "t", "e", "m", "p", "t", "i", "n", "g", " ", "t", "o", " ", "f", "e", "t", "c", "h", " ", "r", "e", "s", "o", "u", "r", "c", "e", ".">>
MsgLowerFailedToFetch == <<"f", "a", "i", "l", "e", "d", " ", "t", "o", " ", "f", "e", "t", "c", "h">>
MsgNetworkTimeout == <<"n", "e", "t", "w", "o", "r", "k", " ", "t", "i", "m", "e", "o", "u", "t">>
RejectMessages ==
    {MsgChromeFailedToFetch, MsgFirefoxNetworkError, MsgLowerFailedToFetch, MsgNetworkTimeout}

\* Message of the SyntaxError response.json() rejects with.
MsgUnexpectedToken == <<"U", "n", "e", "x", "p", "e", "c", "t", "e", "d", " ", "t", "o", "k", "e", "n", " ", "<">>

\* Status texts and bodies of error responses.
TextTooManyRequests == <<"T", "o", "o", " ", "M", "a", "n", "y", " ", "R", "e", "q", "u", "e", "s", "t", "s">>
TextServiceUnavailable == <<"S", "e", "r", "v", "i", "c", "e", " ", "U", "n", "a", "v", "a", "i", "l", "a", "b", "l", "e">>
BodyQuota == <<"q", "u", "o", "t", "a", " ", "e", "x", "c", "e", "e", "d", "e", "d">>
BodyNetwork == <<"u", "p", "s", "t", "r", "e", "a", "m", " ", "n", "e", "t", "w", "o", "r", "k", " ", "u", "n", "r", "e", "a", "c", "h", "a", "b", "l", "e">>
StatusTexts == {<<>>, TextTooManyRequests, TextServiceUnavailable}
ErrorBodies == {<<>>, BodyQuota, BodyNetwork}
ErrorStatuses == {400, 429, 500, 503}

ApiErrorPrefix == <<"A", "P", "I", " ", "E", "r", "r", "o", "r", " ">>
ColonSpace == <<":", " ">>
SpaceDashSpace == <<" ", "-", " ">>

\* String.prototype.includes: case-sensitive substring search.
Includes(s, needle) ==
    \E i \in 1..(Len(s) - Len(needle) + 1) : SubSeq(s, i, i + Len(needle) - 1) = needle

Digit(d) == CASE d = 0 -> "0" [] d = 1 -> "1" [] d = 2 -> "2" [] d = 3 -> "3" [] d = 4 -> "4"
              [] d = 5 -> "5" [] d = 6 -> "6" [] d = 7 -> "7" [] d = 8 -> "8" [] d = 9 -> "9"

\* Template-literal conversion of a non-negative number to its decimal string.
RECURSIVE NumberToString(_)
NumberToString(n) == IF n < 10 THEN <<Digit(n)>> ELSE NumberToString(n \div 10) \o <<Digit(n % 10)>>

\* `API Error ${response.status}: ${response.statusText} - ${errorBody}`
ApiErrorMessage(status, statusText, errorBody) ==
    ApiErrorPrefix \o NumberToString(status) \o ColonSpace \o statusText \o SpaceDashSpace \o errorBody

----------------------------------------------------------------------------
(* safeGenerateContentWithFetch: decisions *)

\* Default parameters: retries = 3, delay = 1000.
DefaultRetries == 3
DefaultDelay == 1000
\* Variant: the retry test admits a spent counter.
RetryOnThrottle_SpentCounter(status, r) == status = 429 /\ r >= 0

\* if (response.status === 429 && retries > 0)
RetryOnThrottle(status, r) == status = 429 /\ r > 0
\* Variant: the catch retries with a spent counter.
RetryOnCatch_SpentCounter(r, message) ==
    r >= 0 /\ (Includes(message, NeedleNetwork) \/ Includes(message, NeedleFailedToFetch))

\* catch: if (retries > 0 && (message.includes('network') || message.includes('failed to fetch')))
RetryOnCatch(r, message) ==
    r > 0 /\ (Includes(message, NeedleNetwork) \/ Includes(message, NeedleFailedToFetch))

\* Arguments of the recursive call: retries - 1, delay * 2.
NextRetries(r) == r - 1
\* Variant: the delay grows by the base delay instead of doubling.
NextDelay_Linear(d) == d + DefaultDelay

NextDelay(d) == d * 2

----------------------------------------------------------------------------
(* JavaScript values *)

JsNull == [k |-> "null"]
JsUndefined == [k |-> "undefined"]
JsNumber == [k |-> "num"]
JsObject(fields) == [k |-> "obj", f |-> fields]
JsArray(s) == [k |-> "arr", items |-> s]

\* Value of a string-valued property, "<undefined>" when the property (or the object) is absent.
Prop(v, name) == IF v.k = "obj" /\ name \in DOMAIN v.f THEN v.f[name] ELSE "<undefined>"

Without(v, name) == JsObject([x \in (DOMAIN v.f) \ {name} |-> v.f[x]])
WithField(v, name, val) == JsObject([x \in (DOMAIN v.f) \cup {name} |-> IF x = name THEN val ELSE v.f[x]])

\* Objects the model generates.
ItemDune ==
    JsObject([title |-> "Dune", type |-> "book", genres |-> <<"Sci-Fi">>,
              description |-> "...", posterUrl |-> "https://picsum.photos/seed/dune/300/450"])
ItemMovie == WithField(ItemDune, "type", "movie")
ItemNoType == Without(ItemMovie, "type")
ItemNoDescription == Without(ItemMovie, "description")

\* required: [...] of the four response schemas.
MediaDetailsRequired == {"title", "type", "genres", "description", "posterUrl"}
SuggestionsRequired == {"title", "description", "genres", "posterUrl"}
SurpriseRequired == {"title", "type", "genres", "description", "posterUrl"}
AutocompleteRequired == {"title", "type"}
\* enum: ['movie', 'book'] of the type property.
TypeEnum == {"movie", "book"}

\* Elements of generated arrays, and generated single objects.
ArrayItems == {ItemMovie, ItemNoType, ItemNoDescription, JsNull}
SingleObjects ==
    {ItemDune, ItemMovie, WithField(ItemDune, "type", "series"), WithField(ItemDune, "title", "")}
      \cup {Without(ItemDune, name) : name \in MediaDetailsRequired}

RECURSIVE SeqsUpTo(_, _)
SeqsUpTo(S, n) ==
    IF n = 0 THEN {<<>>}
    ELSE LET shorter == SeqsUpTo(S, n - 1)
         IN  shorter \cup {Append(s, x) : s \in {t \in shorter : Len(t) = n - 1}, x \in S}

JsonValues ==
    {JsNull, JsNumber} \cup SingleObjects \cup {JsArray(s) : s \in SeqsUpTo(ArrayItems, MaxItems)}

\* The generated text: the empty string, text that is not JSON, or the JSON text of a value.
TextEmpty == [k |-> "str", s |-> "empty"]
TextGarbage == [k |-> "str", s |-> "garbage"]
TextOf(v) == [k |-> "str", s |-> "json", v |-> v]
Texts == {TextEmpty, TextGarbage} \cup {TextOf(v) : v \in JsonValues}

\* Response bodies: no candidate, or one candidate with one text part.
DataNoCandidates == [k |-> "data", candidates |-> <<>>]
DataWithText(t) == [k |-> "data", candidates |-> <<[content |-> [parts |-> <<[text |-> t]>>]]>>]
ResponseDatas == {DataNoCandidates} \cup {DataWithText(t) : t \in Texts}

\* result?.candidates?.[0]?.content?.parts?.[0]?.text
ExtractText(result) ==
    IF result.k # "data" THEN JsUndefined
    ELSE IF Len(result.candidates) = 0 THEN JsUndefined
    ELSE IF Len(result.candidates[1].content.parts) = 0 THEN JsUndefined
    ELSE result.candidates[1].content.parts[1].text

\* if (text): undefined and the empty string are falsy.
Truthy(text) == text.k = "str" /\ text.s # "empty"

\* JSON.parse(text): ok = FALSE stands for the SyntaxError it throws.
JSONParse(text) == IF text.s = "json" THEN [ok |-> TRUE, v |-> text.v] ELSE [ok |-> FALSE, v |-> JsNull]

----------------------------------------------------------------------------
(* The exported operations: what they return for a result of the helper *)

\* parsedResult && typeof parsedResult === 'object' && parsedResult.title
\*   && (parsedResult.type === 'movie' || parsedResult.type === 'book')
MediaDetailsCheck(v) ==
    /\ v.k # "null"
    /\ v.k \in {"obj", "arr"}
    /\ Prop(v, "title") \notin {"<undefined>", ""}
    /\ (Prop(v, "type") = "movie" \/ Prop(v, "type") = "book")

fetchMediaDetailsReturn(result) ==
    LET text == ExtractText(result)
    IN  IF Truthy(text)
        THEN LET parsed == JSONParse(text)
             IN  IF ~parsed.ok THEN JsNull
                 ELSE IF MediaDetailsCheck(parsed.v) THEN parsed.v ELSE JsNull
        ELSE JsNull

\* Array.isArray(parsedResult)
IsArray(v) == v.k = "arr"

fetchSuggestionsReturn(result) ==
    LET text == ExtractText(result)
    IN  IF Truthy(text)
        THEN LET parsed == JSONParse(text)
             IN  IF ~parsed.ok THEN JsArray(<<>>)
                 ELSE IF IsArray(parsed.v) THEN parsed.v ELSE JsArray(<<>>)
        ELSE JsArray(<<>>)

\* ({...item, type: item.type === 'movie' ? MediaType.Movie : MediaType.Book});
\* reading item.type of a null element throws a TypeError (ok = FALSE).
SurpriseMapItem(item) ==
    IF item.k = "null" THEN [ok |-> FALSE, v |-> JsNull]
    ELSE [ok |-> TRUE, v |-> WithField(item, "type", IF Prop(item, "type") = "movie" THEN "movie" ELSE "book")]

SurpriseMap(items) ==
    IF \E i \in 1..Len(items) : ~SurpriseMapItem(items[i]).ok
    THEN [ok |-> FALSE, v |-> JsNull]
    ELSE [ok |-> TRUE, v |-> JsArray([i \in 1..Len(items) |-> SurpriseMapItem(items[i]).v])]
\* Variant: the exception leaves fetchSurpriseSuggestion.
SurpriseCatch_Rethrow == [k |-> "throw"]

\* Value returned when the try block of fetchSurpriseSuggestion throws.
SurpriseCatch == JsNull

fetchSurpriseSuggestionReturn(result) ==
    LET text == ExtractText(result)
    IN  IF Truthy(text)
        THEN LET parsed == JSONParse(text)
             IN  IF ~parsed.ok THEN SurpriseCatch
                 ELSE IF IsArray(parsed.v) /\ Len(parsed.v.items) > 0
                      THEN LET mapped == SurpriseMap(parsed.v.items)
                           IN  IF mapped.ok THEN mapped.v ELSE SurpriseCatch
                      ELSE JsNull
        ELSE JsNull

\* Variant: JSON.parse is not guarded by try/catch.
fetchAutocompleteSuggestionsReturn_NoCatch(result) ==
    LET text == ExtractText(result)
    IN  IF Truthy(text)
        THEN LET parsed == JSONParse(text)
             IN  IF ~parsed.ok THEN [k |-> "throw"]
                 ELSE IF IsArray(parsed.v) THEN parsed.v ELSE JsArray(<<>>)
        ELSE JsArray(<<>>)

fetchAutocompleteSuggestionsReturn(result) ==
    LET text == ExtractText(result)
    IN  IF Truthy(text)
        THEN LET parsed == JSONParse(text)
             IN  IF ~parsed.ok THEN JsArray(<<>>)
                 ELSE IF IsArray(parsed.v) THEN parsed.v ELSE JsArray(<<>>)
        ELSE JsArray(<<>>)

Operations ==
    {"fetchMediaDetails", "fetchSuggestions", "fetchSurpriseSuggestion", "fetchAutocompleteSuggestions"}

OpReturn(o, result) ==
    CASE o = "fetchMediaDetails" -> fetchMediaDetailsReturn(result)
      [] o = "fetchSuggestions" -> fetchSuggestionsReturn(result)
      [] o = "fetchSurpriseSuggestion" -> fetchSurpriseSuggestionReturn(result)
      [] o = "fetchAutocompleteSuggestions" -> fetchAutocompleteSuggestionsReturn(result)

\* String.prototype.trim on a query made of letters and spaces.
RECURSIVE TrimStart(_)
TrimStart(s) == IF s # <<>> /\ Head(s) = " " THEN TrimStart(Tail(s)) ELSE s
RECURSIVE TrimEnd(_)
TrimEnd(s) == IF s # <<>> /\ s[Len(s)] = " " THEN TrimEnd(SubSeq(s, 1, Len(s) - 1)) ELSE s
Trim(s) == TrimEnd(TrimStart(s))

\* if (!genres || genres.length === 0) return [];
SuggestionsEarlyReturn(a) == Len(a.genres) = 0
\* if (!query || query.trim().length < 2) return [];
AutocompleteEarlyReturn(a) == a.query = <<>> \/ Len(Trim(a.query)) < 2

EarlyReturn(o, a) ==
    \/ o = "fetchSuggestions" /\ SuggestionsEarlyReturn(a)
    \/ o = "fetchAutocompleteSuggestions" /\ AutocompleteEarlyReturn(a)

Queries == {<<>>, <<"D">>, <<" ", "D", " ">>, <<"D", "u">>}
GenreLists == {<<>>, <<"Sci-Fi">>}
NoArg == [query |-> <<>>, genres |-> <<>>, type |-> "movie"]
Args(o) ==
    CASE o = "fetchMediaDetails" -> {[NoArg EXCEPT !.query = q] : q \in {<<"D", "u">>}}
      [] o = "fetchSuggestions" -> {[NoArg EXCEPT !.genres = g, !.type = t] : g \in GenreLists, t \in TypeEnum}
      [] o = "fetchSurpriseSuggestion" -> {NoArg}
      [] o = "fetchAutocompleteSuggestions" -> {[NoArg EXCEPT !.query = q] : q \in Queries}

----------------------------------------------------------------------------
(* The call as a state machine *)
\* Variant: the credential is not checked.
KeyMissing_Unchecked == FALSE

\* if (!apiKey): the credential is missing.
KeyMissing == apiKey = ""

LogEntry(status, data) == [status |-> status, data |-> data]

AiIdle ==
    /\ pc = "idle"
    /\ op = "none"
    /\ arg = NoArg
    /\ retries = DefaultRetries
    /\ delay = DefaultDelay
    /\ requests = 0
    /\ waits = <<>>
    /\ log = <<>>
    /\ raw = JsUndefined
    /\ ret = JsUndefined

\* No call of the SDK revision has been made.
SdkIdle ==
    /\ sdkPc = "idle"
    /\ sdkOp = "none"
    /\ sdkArg = NoArg
    /\ sdkRequests = 0
    /\ sdkRet = JsUndefined

\* The add form as mounted: empty query, nothing pending.
FormIdle ==
    /\ query = <<>>
    /\ suggestions = <<>>
    /\ showSuggestions = FALSE
    /\ isLoading = FALSE
    /\ error = "null"
    /\ timers = {}
    /\ sinceChange = 0
    /\ issued = 0
    /\ inflight = {}
    /\ applied = <<>>
    /\ submitted = JsUndefined
    /\ submitData = JsUndefined
    /\ submitResult = JsUndefined
    /\ added = JsUndefined

\* No store attached: nothing stored, nothing displayed, nothing in flight.
StoreIdle ==
    /\ backend = "firestore"
    /\ card = "cycle"
    /\ store = <<>>
    /\ mediaItems = <<>>
    /\ appError = "null"
    /\ sent = 0
    /\ restRequests = {}
    /\ restResponses = {}
    /\ clock = 0

\* The Suggestions panel as mounted: closed, empty, nothing in flight.
PanelIdle ==
    /\ movieSuggestions = <<>>
    /\ bookSuggestions = <<>>
    /\ surprise = JsNull
    /\ panelIsLoading = FALSE
    /\ isSurpriseLoading = FALSE
    /\ panelShowSuggestions = FALSE
    /\ clicks = 0
    /\ genCalls = {}
    /\ surpriseCalls = {}

\* The Firestore app not started: nobody signed in, empty collections.
FireIdle ==
    /\ authUser = "none"
    /\ authEvents = <<>>
    /\ signIns = 0
    /\ userId = "null"
    /\ isAuthReady = FALSE
    /\ effectDue = FALSE
    /\ signOutPending = FALSE
    /\ listeners = {}
    /\ snapshotDue = FALSE
    /\ collections = <<>>
    /\ calls = 0
    /\ fireItems = <<>>
    /\ fireError = "null"
    /\ fireLoading = TRUE

Init ==
    /\ apiKey \in {"", "key"}
    /\ AiIdle
    /\ SdkIdle
    /\ FormIdle
    /\ StoreIdle
    /\ PanelIdle
    /\ FireIdle

\* Variant: the recursive call's value is not returned.
Unwind_NoReturn(depth, result) == IF depth = 0 THEN result ELSE JsUndefined

\* return safeGenerateContentWithFetch(...): each of the `depth` enclosing invocations
\* returns what the invocation it called returned.
RECURSIVE Unwind(_, _)
Unwind(depth, result) == IF depth = 0 THEN result ELSE Unwind(depth - 1, result)

\* The innermost invocation returns `result`; the awaiting operation runs to its return.
Finish(result) ==
    /\ pc' = "done"
    /\ raw' = Unwind(Len(waits'), result)
    /\ ret' = OpReturn(op, Unwind(Len(waits'), result))

\* await new Promise(resolve => setTimeout(resolve, delay))
Backoff ==
    /\ pc' = "waiting"
    /\ UNCHANGED <<raw, ret>>

\* catch (error): retry on a matching message, else return null.
Catch(message) == IF RetryOnCatch(retries, message) THEN Backoff ELSE Finish(JsNull)

\* An exported operation is called: its early return, or the first invocation of the
\* helper up to its await of fetch().
Call(o, a) ==
    /\ pc \in {"idle", "done"}
    /\ op' = o
    /\ arg' = a
    /\ retries' = DefaultRetries
    /\ delay' = DefaultDelay
    /\ waits' = <<>>
    /\ log' = <<>>
    /\ IF EarlyReturn(o, a)
       THEN /\ pc' = "done"
            /\ raw' = JsUndefined
            /\ ret' = JsArray(<<>>)
            /\ requests' = 0
       ELSE IF KeyMissing
       THEN /\ pc' = "done"
            /\ raw' = JsNull
            /\ ret' = OpReturn(o, JsNull)
            /\ requests' = 0
       ELSE /\ pc' = "sent"
            /\ requests' = 1
            /\ raw' = JsUndefined
            /\ ret' = JsUndefined
    /\ UNCHANGED <<apiKey, nonAiVars>>

\* fetch() rejects with a TypeError carrying `message`.
FetchRejects(message) ==
    /\ pc = "sent"
    /\ log' = Append(log, LogEntry(0, JsNull))
    /\ UNCHANGED <<apiKey, op, arg, retries, delay, requests, waits, nonAiVars>>
    /\ Catch(message)

\* The endpoint answers with an error status (!response.ok).
HttpError(status, statusText, errorBody) ==
    /\ pc = "sent"
    /\ log' = Append(log, LogEntry(status, JsNull))
    /\ UNCHANGED <<apiKey, op, arg, retries, delay, requests, waits, nonAiVars>>
    /\ IF RetryOnThrottle(status, retries)
       THEN Backoff
       ELSE Catch(ApiErrorMessage(status, statusText, errorBody))

\* The endpoint answers 200 with a JSON body.
HttpOk(data) ==
    /\ pc = "sent"
    /\ log' = Append(log, LogEntry(200, data))
    /\ UNCHANGED <<apiKey, op, arg, retries, delay, requests, waits, nonAiVars>>
    /\ Finish(data)

\* The endpoint answers 200 with a body that is not JSON: response.json() rejects.
HttpOkBadJson ==
    /\ pc = "sent"
    /\ log' = Append(log, LogEntry(200, JsNull))
    /\ UNCHANGED <<apiKey, op, arg, retries, delay, requests, waits, nonAiVars>>
    /\ Catch(MsgUnexpectedToken)

\* The backoff timer fires: the recursive invocation runs up to its await of fetch().
BackoffElapsed ==
    /\ pc = "waiting"
    /\ waits' = Append(waits, delay)
    /\ retries' = NextRetries(retries)
    /\ delay' = NextDelay(delay)
    /\ IF KeyMissing
       THEN /\ Finish(JsNull)
            /\ UNCHANGED requests
       ELSE /\ pc' = "sent"
            /\ requests' = requests + 1
            /\ UNCHANGED <<raw, ret>>
    /\ UNCHANGED <<apiKey, op, arg, log, nonAiVars>>

Next ==
    \/ \E o \in Operations : \E a \in Args(o) : Call(o, a)
    \/ \E message \in RejectMessages : FetchRejects(message)
    \/ \E status \in ErrorStatuses, statusText \in StatusTexts, errorBody \in ErrorBodies :
          HttpError(status, statusText, errorBody)
    \/ \E data \in ResponseDatas : HttpOk(data)
    \/ HttpOkBadJson
    \/ BackoffElapsed

Spec == Init /\ [][Next]_vars

\* The endpoint answers every request and timers fire.
Respond ==
    \/ \E message \in RejectMessages : FetchRejects(message)
    \/ \E status \in ErrorStatuses, statusText \in StatusTexts, errorBody \in ErrorBodies :
          HttpError(status, statusText, errorBody)
    \/ \E data \in ResponseDatas : HttpOk(data)
    \/ HttpOkBadJson
FairSpec == Spec /\ WF_vars(Respond) /\ WF_vars(BackoffElapsed)

TypeOK ==
    /\ pc \in {"idle", "sent", "waiting", "done"}
    /\ retries \in 0..DefaultRetries
    /\ requests \in 0..(DefaultRetries + 1)
    /\ Len(waits) <= DefaultRetries

----------------------------------------------------------------------------
(* Properties *)

LastStatus == log[Len(log)].status
AllThrottled == \A i \in 1..Len(log) : log[i].status = 429
\* null, or the empty list.
NullOrEmpty(v) == v = JsNull \/ v = JsArray(<<>>)

\* C1 (as stated): three consecutive 429 answers exhaust the retries; the call ends in a
\* terminal Failure (null/empty) instead of issuing a further request.
C1_ThreeThrottlesExhaust ==
    (Len(log) = 3 /\ AllThrottled) => (pc = "done" /\ NullOrEmpty(ret) /\ requests = 3)

\* C1 (amended): with the default 3 retries the call issues a further request after each of
\* the first three consecutive 429 answers, and the fourth consecutive 429 ends it in a
\* terminal Failure (helper result null, operation result null/empty) after 4 requests.
C1_FourThrottlesExhaust ==
    /\ (Len(log) \in 1..3 /\ AllThrottled) => (pc # "done" /\ requests \in {Len(log), Len(log) + 1})
    /\ (Len(log) = 4 /\ AllThrottled) =>
          (pc = "done" /\ raw = JsNull /\ NullOrEmpty(ret) /\ requests = 4)

C1_Witness == Len(log) = 4 /\ AllThrottled /\ pc = "done"

\* C2: after an answer with an HTTP error status other than 429, whatever its status text
\* and body, the call has ended with null: no backoff wait and no further request.
C2_OtherStatusTerminal ==
    (log # <<>> /\ LastStatus \notin {0, 200, 429}) =>
        (pc = "done" /\ raw = JsNull /\ requests = Len(log))

\* C3: a 429 answer followed by a 200 answer with JSON content ends the call and the call
\* returns that content, processed as the operation processes a first-attempt success.
C3_RetryTransparent ==
    \A i \in 2..Len(log) :
        (log[i - 1].status = 429 /\ log[i].status = 200 /\ log[i].data # JsNull) =>
            /\ pc = "done"
            /\ i = Len(log)
            /\ raw = log[i].data
            /\ ret = OpReturn(op, log[i].data)

C3_Witness ==
    /\ pc = "done"
    /\ Len(log) = 2
    /\ log[1].status = 429
    /\ log[2].status = 200
    /\ log[2].data = DataWithText(TextOf(ItemDune))
    /\ op = "fetchMediaDetails"
    /\ ret = ItemDune

\* C4: when fetch rejects and retries remain, the call does not end: it waits and
\* re-issues the request; it fails only once the 3 retries are used up.
C4_RejectionRetried ==
    (pc = "done" /\ log # <<>> /\ LastStatus = 0) => retries = 0

\* C5: the delays waited before the retries of one call are 1000 ms and then double each
\* time, whatever caused the retries.
C5_DelayDoubles ==
    \A i \in 1..Len(waits) :
        /\ i = 1 => waits[i] = 1000
        /\ i > 1 => waits[i] = 2 * waits[i - 1]

C5_Witness ==
    /\ Len(waits) = 3
    /\ waits = <<1000, 2000, 4000>>
    /\ \E i \in 1..Len(log) : log[i].status = 429
    /\ \E i \in 1..Len(log) : log[i].status = 0

\* C6: every call terminates: a sent request leads to the call's end, a call never
\* issues more than 1 + 3 requests, and every retry decreases the retries counter.
C6_Terminates ==
    /\ [](requests <= 1 + 3)
    /\ [][BackoffElapsed => retries' < retries /\ retries' >= 0]_vars
    /\ ((pc = "sent") ~> (pc = "done"))

C6_Witness == pc = "done" /\ requests = 1 + 3

\* C7: with the credential missing, a call of any of the four operations ends as a
\* Failure (null or the empty list) and no network request is issued.
C7_NoKeyNoRequest ==
    apiKey = "" =>
        /\ requests = 0
        /\ log = <<>>
        /\ pc \in {"idle", "done"}
        /\ pc = "done" => NullOrEmpty(ret)

C7_Witness == apiKey = "" /\ pc = "done" /\ ~EarlyReturn(op, arg) /\ raw = JsNull

\* The failure kinds of a finished call: no helper result (missing credential, exhausted
\* retries, terminal HTTP error), missing text, parse error, and a parsed value of the
\* wrong top-level kind (not an object for the single-item call, not an array for a list call).
WrongKind(o, v) == IF o = "fetchMediaDetails" THEN v.k # "obj" ELSE v.k # "arr"
FailureKind ==
    /\ raw # JsUndefined
    /\ \/ raw = JsNull
       \/ ~Truthy(ExtractText(raw))
       \/ ~JSONParse(ExtractText(raw)).ok
       \/ WrongKind(op, JSONParse(ExtractText(raw)).v)

Required(o) ==
    CASE o = "fetchSuggestions" -> SuggestionsRequired
      [] o = "fetchSurpriseSuggestion" -> SurpriseRequired
      [] o = "fetchAutocompleteSuggestions" -> AutocompleteRequired
      [] OTHER -> MediaDetailsRequired
HasRequired(o, v) == v.k = "obj" /\ Required(o) \subseteq DOMAIN v.f

\* C9: of the array a list operation parsed, no element lacking a required field is in
\* the returned collection, and every well-formed element is.
C9_ElementsValidated ==
    (/\ pc = "done"
     /\ op \in {"fetchSuggestions", "fetchSurpriseSuggestion", "fetchAutocompleteSuggestions"}
     /\ raw.k = "data"
     /\ Truthy(ExtractText(raw))
     /\ JSONParse(ExtractText(raw)).ok
     /\ IsArray(JSONParse(ExtractText(raw)).v)) =>
        LET parsed == JSONParse(ExtractText(raw)).v.items
            returned == IF ret.k = "arr" THEN ret.items ELSE <<>>
        IN  /\ \A i \in 1..Len(returned) :
                  returned[i].k = "obj" => Required(op) \subseteq DOMAIN returned[i].f
            /\ \A i \in 1..Len(parsed) :
                  HasRequired(op, parsed[i]) => \E j \in 1..Len(returned) : returned[j] = parsed[i]

\* C10: fetchMediaDetails returns null whenever the parsed result lacks one of title,
\* type, genres, description, posterUrl, or its type is neither 'movie' nor 'book'.
C10_ShapeMismatchIsNull ==
    (/\ pc = "done"
     /\ op = "fetchMediaDetails"
     /\ raw.k = "data"
     /\ Truthy(ExtractText(raw))
     /\ JSONParse(ExtractText(raw)).ok) =>
        LET parsed == JSONParse(ExtractText(raw)).v
        IN  ~(HasRequired(op, parsed) /\ Prop(parsed, "type") \in TypeEnum) => ret = JsNull

\* The response carried a non-empty text that is not valid JSON.
MalformedText == raw.k = "data" /\ ExtractText(raw) = TextGarbage

\* C11 (as stated): for a text payload that is not valid JSON the call returns null
\* (single-item call) or the empty collection (every list call), and does not throw.
C11_MalformedIsNullOrEmptyList ==
    (pc = "done" /\ MalformedText) =>
        /\ ret.k # "throw"
        /\ ret = (IF op = "fetchMediaDetails" THEN JsNull ELSE JsArray(<<>>))

\* C11 (amended): for a text payload that is not valid JSON the call does not throw;
\* fetchMediaDetails and fetchSurpriseSuggestion return null, fetchSuggestions and
\* fetchAutocompleteSuggestions return the empty collection.
C11_MalformedCollapse ==
    (pc = "done" /\ MalformedText) =>
        /\ ret.k # "throw"
        /\ op \in {"fetchMediaDetails", "fetchSurpriseSuggestion"} => ret = JsNull
        /\ op \in {"fetchSuggestions", "fetchAutocompleteSuggestions"} => ret = JsArray(<<>>)

C11_Witness ==
    /\ pc = "done"
    /\ MalformedText
    /\ op = "fetchAutocompleteSuggestions"
    /\ ret = JsArray(<<>>)

----------------------------------------------------------------------------
(* The SDK revision of the service (ai.models.generateContent, no retry helper) *)

\* Object spread of a parsed value: {...result}. An array spreads to its index keys,
\* null and numbers spread to nothing.
IndexKey(i) == CASE i = 1 -> "0" [] i = 2 -> "1" [] i = 3 -> "2" [] OTHER -> "3"
Spread(v) ==
    CASE v.k = "obj" -> v
      [] v.k = "arr" ->
            JsObject([x \in {IndexKey(i) : i \in 1..Len(v.items)} |->
                        LET i == CHOOSE j \in 1..Len(v.items) : IndexKey(j) = x IN v.items[i]])
      [] OTHER -> JsObject(<<>>)

\* What generateContent resolves with: response.text is a string or undefined.
SdkTexts == Texts \cup {JsUndefined}

\* try { ... response.text.trim(); if (text) return JSON.parse(text); return null }
\* catch { return null }
sdkFetchMediaDetailsReturn(text) ==
    IF text.k # "str" THEN JsNull
    ELSE IF Truthy(text)
         THEN LET parsed == JSONParse(text) IN IF parsed.ok THEN parsed.v ELSE JsNull
         ELSE JsNull

sdkFetchSuggestionsReturn(text) ==
    IF text.k # "str" THEN JsArray(<<>>)
    ELSE IF Truthy(text)
         THEN LET parsed == JSONParse(text) IN IF parsed.ok THEN parsed.v ELSE JsArray(<<>>)
         ELSE JsArray(<<>>)

\* return {...result, type: result.type === 'movie' ? MediaType.Movie : MediaType.Book};
\* reading result.type of null throws and the catch returns null.
sdkFetchSurpriseSuggestionReturn(text) ==
    IF text.k # "str" THEN JsNull
    ELSE IF Truthy(text)
         THEN LET parsed == JSONParse(text)
              IN  IF ~parsed.ok \/ parsed.v.k = "null" THEN JsNull
                  ELSE WithField(Spread(parsed.v), "type",
                                 IF Prop(parsed.v, "type") = "movie" THEN "movie" ELSE "book")
         ELSE JsNull

sdkFetchAutocompleteSuggestionsReturn(text) ==
    IF text.k # "str" THEN JsArray(<<>>)
    ELSE IF Truthy(text)
         THEN LET parsed == JSONParse(text) IN IF parsed.ok THEN parsed.v ELSE JsArray(<<>>)
         ELSE JsArray(<<>>)

SdkOpReturn(o, text) ==
    CASE o = "fetchMediaDetails" -> sdkFetchMediaDetailsReturn(text)
      [] o = "fetchSuggestions" -> sdkFetchSuggestionsReturn(text)
      [] o = "fetchSurpriseSuggestion" -> sdkFetchSurpriseSuggestionReturn(text)
      [] o = "fetchAutocompleteSuggestions" -> sdkFetchAutocompleteSuggestionsReturn(text)

\* Value returned by the catch block of each operation.
SdkCatchReturn(o) ==
    IF o \in {"fetchMediaDetails", "fetchSurpriseSuggestion"} THEN JsNull ELSE JsArray(<<>>)

\* if (genres.length === 0) return [];
SdkSuggestionsEarlyReturn(a) == Len(a.genres) = 0
\* if (!query) return [];
SdkAutocompleteEarlyReturn(a) == a.query = <<>>

SdkEarlyReturn(o, a) ==
    \/ o = "fetchSuggestions" /\ SdkSuggestionsEarlyReturn(a)
    \/ o = "fetchAutocompleteSuggestions" /\ SdkAutocompleteEarlyReturn(a)

\* An exported operation is called: its early return, or up to its await of generateContent.
SdkCall(o, a) ==
    /\ sdkPc \in {"idle", "done"}
    /\ sdkOp' = o
    /\ sdkArg' = a
    /\ IF SdkEarlyReturn(o, a)
       THEN /\ sdkPc' = "done"
            /\ sdkRequests' = 0
            /\ sdkRet' = JsArray(<<>>)
       ELSE /\ sdkPc' = "sent"
            /\ sdkRequests' = 1
            /\ sdkRet' = JsUndefined
    /\ UNCHANGED nonSdkVars

\* generateContent resolves with a response whose text is `text`.
SdkResolves(text) ==
    /\ sdkPc = "sent"
    /\ sdkPc' = "done"
    /\ sdkRet' = SdkOpReturn(sdkOp, text)
    /\ UNCHANGED <<sdkOp, sdkArg, sdkRequests, nonSdkVars>>

\* generateContent rejects.
SdkRejects ==
    /\ sdkPc = "sent"
    /\ sdkPc' = "done"
    /\ sdkRet' = SdkCatchReturn(sdkOp)
    /\ UNCHANGED <<sdkOp, sdkArg, sdkRequests, nonSdkVars>>

SdkInit ==
    /\ apiKey = "key"
    /\ AiIdle
    /\ SdkIdle
    /\ FormIdle
    /\ StoreIdle
    /\ PanelIdle
    /\ FireIdle

SdkNext ==
    \/ \E o \in Operations : \E a \in Args(o) : SdkCall(o, a)
    \/ \E text \in SdkTexts : SdkResolves(text)
    \/ SdkRejects

SdkSpec == SdkInit /\ [][SdkNext]_vars

\* C12: for an autocomplete query shorter than 2 characters, fetchAutocompleteSuggestions
\* issues no network request and returns [].
C12_ShortQueryNoRequest ==
    (sdkPc # "idle" /\ sdkOp = "fetchAutocompleteSuggestions" /\ Len(Trim(sdkArg.query)) < 2) =>
        /\ sdkRequests = 0
        /\ sdkPc = "done"
        /\ sdkRet = JsArray(<<>>)

\* ---------------------------------------------------------------------------------------
\* The add form: src/components/AddItemForm.tsx
\* ---------------------------------------------------------------------------------------

\* Delay of the autocomplete timer (ms).
QuietPeriod == 300

\* What the user types into the input.
TypedQueries == {<<>>, <<"D">>, <<"D", "u">>, <<"D", "u", "n">>}

\* The characters of the titles the model generates.
Chars(title) ==
    CASE title = "Dune" -> <<"D", "u", "n", "e">>
      [] title = "Dunkirk" -> <<"D", "u", "n", "k", "i", "r", "k">>
      [] OTHER -> <<>>

\* What the autocomplete endpoint suggests for a query: nothing, or one title that depends
\* on the query.
TitleFor(q) == IF q = <<"D", "u">> THEN "Dune" ELSE "Dunkirk"
SuggestionFor(q) == JsObject([title |-> TitleFor(q), type |-> "movie"])
AutocompleteResults(q) == {<<>>, <<SuggestionFor(q)>>}

SubmitObjects ==
    {ItemDune, ItemMovie, Without(ItemMovie, "genres")}

\* Responses fetchMediaDetails receives for the submitted title.
SubmitDatas ==
    {DataNoCandidates} \cup {DataWithText(TextOf(o)) : o \in SubmitObjects}

\* The effect's cleanup: clearTimeout(handler).
\* Variant: the effect returns no cleanup.
EffectCleanup_Missing(ts) == ts
EffectCleanup(ts) == {}

\* The effect on [query], run when the query has become q: the previous run's cleanup, then
\* either the clearing of the suggestions or a new timer.
QueryEffect(q) ==
    IF Len(Trim(q)) < 2
    THEN /\ timers' = EffectCleanup(timers)
         /\ suggestions' = <<>>
         /\ showSuggestions' = FALSE
    ELSE /\ timers' = EffectCleanup(timers) \cup {[q |-> q, remaining |-> QuietPeriod]}
         /\ UNCHANGED <<suggestions, showSuggestions>>

\* onChange of the input (disabled while isLoading): setQuery(e.target.value).
TypeQuery(q) ==
    /\ ~isLoading
    /\ q # query
    /\ query' = q
    /\ sinceChange' = 0
    /\ QueryEffect(q)
    /\ UNCHANGED <<isLoading, error, issued, inflight, applied, submitted, submitData,
                   submitResult, added, nonFormVars>>

\* 100 ms pass; a timer that is due fires before more time passes.
Tick ==
    /\ \A t \in timers : t.remaining > 0
    /\ timers # {} \/ sinceChange < QuietPeriod
    /\ timers' = {[t EXCEPT !.remaining = IF @ > 100 THEN @ - 100 ELSE 0] : t \in timers}
    /\ sinceChange' = IF sinceChange + 100 < QuietPeriod THEN sinceChange + 100 ELSE QuietPeriod
    /\ UNCHANGED <<query, suggestions, showSuggestions, isLoading, error, issued, inflight,
                   applied, submitted, submitData, submitResult, added, nonFormVars>>

\* The timer's callback starts: fetchAutocompleteSuggestions(query) with the query it captured.
TimerFires(t) ==
    /\ t \in timers
    /\ t.remaining = 0
    /\ issued < MaxRequests
    /\ timers' = timers \ {t}
    /\ issued' = issued + 1
    /\ inflight' = inflight \cup {[n |-> issued + 1, q |-> t.q]}
    /\ UNCHANGED <<query, suggestions, showSuggestions, isLoading, error, sinceChange,
                   applied, submitted, submitData, submitResult, added, nonFormVars>>

\* What the callback leaves in `suggestions` when request r resolves with results.
\* Variant: the callback drops the results of a query that is no longer the current one.
ApplyResults_CurrentOnly(r, results) == IF r.q = query THEN results ELSE suggestions
ApplyResults(r, results) == results

\* The timer's callback resumes after the await: setSuggestions(results);
\* setShowSuggestions(results.length > 0).
AutocompleteResolves(r, results) ==
    /\ r \in inflight
    /\ inflight' = inflight \ {r}
    /\ suggestions' = ApplyResults(r, results)
    /\ showSuggestions' = (Len(results) > 0)
    /\ applied' = Append(applied, [n |-> r.n, q |-> r.q, results |-> results])
    /\ UNCHANGED <<query, isLoading, error, timers, sinceChange, issued, submitted,
                   submitData, submitResult, added, nonFormVars>>

\* handleClickOutside.
ClickOutside ==
    /\ showSuggestions
    /\ showSuggestions' = FALSE
    /\ UNCHANGED <<query, suggestions, isLoading, error, timers, sinceChange, issued, inflight,
                   applied, submitted, submitData, submitResult, added, nonFormVars>>

\* handleSuggestionClick on the i-th entry of the open dropdown.
SuggestionClick(i) ==
    /\ showSuggestions
    /\ i \in 1..Len(suggestions)
    /\ LET q == Chars(Prop(suggestions[i], "title")) IN
        /\ query' = q
        /\ IF q # query
           THEN /\ sinceChange' = 0
                /\ timers' = (IF Len(Trim(q)) < 2 THEN EffectCleanup(timers)
                              ELSE EffectCleanup(timers) \cup {[q |-> q, remaining |-> QuietPeriod]})
           ELSE UNCHANGED <<sinceChange, timers>>
    /\ suggestions' = <<>>
    /\ showSuggestions' = FALSE
    /\ UNCHANGED <<isLoading, error, issued, inflight, applied, submitted, submitData,
                   submitResult, added, nonFormVars>>

\* handleSubmit up to the await (the button is disabled while isLoading or for a blank query).
Submit ==
    /\ ~isLoading
    /\ Trim(query) # <<>>
    /\ showSuggestions' = FALSE
    /\ isLoading' = TRUE
    /\ error' = "null"
    /\ submitted' = [k |-> "call", q |-> query]
    /\ UNCHANGED <<query, suggestions, timers, sinceChange, issued, inflight, applied,
                   submitData, submitResult, added, nonFormVars>>

\* result.type === 'movie' ? MediaType.Movie : MediaType.Book
\* Variant: every record is a book.
NewItemType_AlwaysBook(result) == "book"
NewItemType(result) == IF Prop(result, "type") = "movie" THEN "movie" ELSE "book"

\* The record handleSubmit passes to onAddItem.
NewItem(result) ==
    [type |-> NewItemType(result),
     title |-> Prop(result, "title"),
     genres |-> IF "genres" \in DOMAIN result.f THEN JsArray(result.f.genres) ELSE JsUndefined,
     status |-> IF NewItemType(result) = "movie" THEN "to-watch" ELSE "to-read",
     rating |-> JsNull,
     posterUrl |-> Prop(result, "posterUrl"),
     description |-> Prop(result, "description")]

\* handleSubmit after the await: fetchMediaDetails returned for the response data.
DetailsResolve(data) ==
    /\ submitted # JsUndefined
    /\ submitted' = JsUndefined
    /\ submitData' = data
    /\ LET result == fetchMediaDetailsReturn(data) IN
        /\ submitResult' = result
        /\ IF result # JsNull
           THEN /\ added' = NewItem(result)
                /\ query' = <<>>
                /\ IF query # <<>>
                   THEN sinceChange' = 0 /\ QueryEffect(<<>>)
                   ELSE UNCHANGED <<sinceChange, timers, suggestions, showSuggestions>>
                /\ UNCHANGED error
           ELSE /\ error' = "Could not find that title. Please try another."
                /\ UNCHANGED <<added, query, sinceChange, timers, suggestions, showSuggestions>>
    /\ isLoading' = FALSE
    /\ UNCHANGED <<issued, inflight, applied, nonFormVars>>

FormInit ==
    /\ apiKey = "key"
    /\ AiIdle
    /\ SdkIdle
    /\ FormIdle
    /\ StoreIdle
    /\ PanelIdle
    /\ FireIdle

FormNext ==
    \/ \E q \in TypedQueries : TypeQuery(q)
    \/ Tick
    \/ \E t \in timers : TimerFires(t)
    \/ \E r \in inflight : \E results \in AutocompleteResults(r.q) : AutocompleteResolves(r, results)
    \/ ClickOutside
    \/ \E i \in 1..MaxItems : SuggestionClick(i)
    \/ Submit
    \/ \E data \in SubmitDatas : DetailsResolve(data)

FormSpec == FormInit /\ [][FormNext]_vars

\* C13: when autocomplete responses resolve, the one that resolves last is what is left in
\* the suggestion state, whatever the order in which the requests were issued: each applied
\* response becomes the content of `suggestions`, an older query's response included.
C13_LastResolvedWins ==
    [][applied' # applied =>
          /\ suggestions' = applied'[Len(applied')].results
          /\ showSuggestions' = (Len(applied'[Len(applied')].results) > 0)]_vars

\* An older query's response resolved after the newer one's and is what the form shows.
C13_Witness ==
    /\ Len(applied) = 2
    /\ applied[2].n < applied[1].n
    /\ applied[2].q # query
    /\ applied[1].results # <<>>
    /\ suggestions = applied[2].results
    /\ suggestions # applied[1].results
    /\ showSuggestions

\* C14: at most one autocomplete timer is pending; a change of the query removes the timer
\* that was pending; a request is issued only for the current query value and only when that
\* value has been unchanged for the whole quiet period.
C14_Debounce ==
    /\ [](Cardinality(timers) <= 1)
    /\ [][/\ query' # query => timers' \cap timers = {}
          /\ issued' # issued =>
                \E r \in inflight' \ inflight : r.q = query /\ sinceChange = QuietPeriod]_vars

\* A second request has been issued, for a query typed after the first request's query and
\* then left alone for the quiet period.
C14_Witness ==
    /\ issued = 2
    /\ \E r \in inflight : r.n = 2 /\ r.q = query /\ r.q = <<"D", "u", "n">>
    /\ \E r \in inflight : r.n = 1 /\ r.q # query
    /\ sinceChange = QuietPeriod
    /\ timers = {}

\* C28: whenever the query has fewer than 2 characters after trimming, the suggestion list
\* is empty and the dropdown is hidden.
C28_ShortQueryNoSuggestions ==
    Len(Trim(query)) < 2 => (suggestions = <<>> /\ ~showSuggestions)

\* The object a fetchMediaDetails response carries as JSON text, if it carries one.
CarriesObject(data) ==
    /\ data.k = "data"
    /\ Len(data.candidates) > 0
    /\ data.candidates[1].content.parts[1].text.s = "json"
    /\ data.candidates[1].content.parts[1].text.v.k = "obj"
CarriedObject(data) == data.candidates[1].content.parts[1].text.v

\* C19: for a response carrying an object with a title and type 'movie' or 'book',
\* fetchMediaDetails returns that object unchanged, and the record handed to onAddItem has
\* the matching kind ('book' for type 'book', 'movie' for type 'movie') and the same title.
C19_WellFormedPassesThrough ==
    (/\ CarriesObject(submitData)
     /\ "title" \in DOMAIN CarriedObject(submitData).f
     /\ CarriedObject(submitData).f.title # ""
     /\ "type" \in DOMAIN CarriedObject(submitData).f
     /\ CarriedObject(submitData).f.type \in {"movie", "book"}) =>
        /\ submitResult = CarriedObject(submitData)
        /\ added # JsUndefined
        /\ added.type = CarriedObject(submitData).f.type
        /\ added.title = CarriedObject(submitData).f.title

\* A well-formed book response was turned into a book record.
C19_Witness ==
    /\ CarriesObject(submitData)
    /\ submitResult = ItemDune
    /\ added # JsUndefined
    /\ added.type = "book"
    /\ added.status = "to-read"

\* ---------------------------------------------------------------------------------------
\* The record store and the item cards: src/App.tsx (REST client, Firestore client),
\* src/server.js (REST server, schema), src/components/MediaItem.tsx and its other
\* revision src/unnamed/part_003 (the card), src/unnamed/part_007 (types)
\* ---------------------------------------------------------------------------------------

\* A numeric rating.
JsNum(n) == [k |-> "num", n |-> n]

Ids == 1..MaxDocs

\* enum MediaStatus, by kind.
PendingOf(type) == IF type = "movie" THEN "to-watch" ELSE "to-read"
InProgressOf(type) == IF type = "movie" THEN "watching" ELSE "reading"
CompletedOf(type) == IF type = "movie" THEN "watched" ELSE "read"
MediaStatuses == {"watched", "read", "to-watch", "to-read", "watching", "reading"}

\* status: { enum: [...] } of MediaItemSchema.
SchemaStatuses == {"watched", "read", "to-watch", "to-read"}

\* The records the store starts with, as the add form creates them: odd ids are movies,
\* even ids books. Only the REST server's schema adds updatedAt.
SeedType(i) == IF i % 2 = 1 THEN "movie" ELSE "book"
Seed(b, i) ==
    IF b = "rest"
    THEN [type |-> SeedType(i), title |-> TitleFor(<<>>), status |-> PendingOf(SeedType(i)),
          rating |-> JsNull, updatedAt |-> 0]
    ELSE [type |-> SeedType(i), title |-> TitleFor(<<>>), status |-> PendingOf(SeedType(i)),
          rating |-> JsNull]

\* const isCompleted = item.status === MediaStatus.Watched || item.status === MediaStatus.Read
IsCompleted(item) == item.status = "watched" \/ item.status = "read"

\* handleStatusChange of MediaItem.tsx: completed goes to pending, anything else to completed.
ToggleStatus(item) == IF IsCompleted(item) THEN PendingOf(item.type) ELSE CompletedOf(item.type)

\* handleStatusChange of part_003: pending, in progress, completed, and anything else to pending.
CycleStatus(item) ==
    IF item.type = "movie"
    THEN IF item.status = "to-watch" THEN "watching"
         ELSE IF item.status = "watching" THEN "watched"
         ELSE "to-watch"
    ELSE IF item.status = "to-read" THEN "reading"
         ELSE IF item.status = "reading" THEN "read"
         ELSE "to-read"

\* The status the card in use asks for when its status button is clicked.
handleStatusChange(c, item) == IF c = "toggle" THEN ToggleStatus(item) ELSE CycleStatus(item)

\* {isCompleted && <Rating .../>}: whether the card renders the rating control.
\* Variant: the rating control is always rendered.
RatingOffered_Always(item) == TRUE
RatingOffered(item) == IsCompleted(item)

\* The stars of the Rating component.
Stars == 1..5

\* The stars the user clicks.
ClickedStars == {3, 5}

\* onRate(rating === star ? null : star)
StarClick(rating, star) == IF rating = JsNum(star) THEN JsNull ELSE JsNum(star)

\* {rating && ...}: whether the Clear button is rendered.
ClearOffered(rating) == rating.k = "num" /\ rating.n # 0

\* isValidMediaStatus
isValidMediaStatus(status) == status \in MediaStatuses

\* (typeof rating === 'number' && rating >= 1 && rating <= 5) ? rating : null
RatingToUpdate(rating) == IF rating.k = "num" /\ rating.n >= 1 /\ rating.n <= 5 THEN rating ELSE JsNull

\* updateDoc(ref, { [field]: value }): the named field is written.
\* Variant: writing the status also clears the rating.
FirestoreUpdate_StatusClearsRating(doc, field, value) ==
    IF field = "status" THEN [doc EXCEPT !.status = value, !.rating = JsNull] ELSE [doc EXCEPT ![field] = value]
FirestoreUpdate(doc, field, value) == [doc EXCEPT ![field] = value]

\* findByIdAndUpdate(id, { [field]: value }) under timestamps: true: the named field is
\* written and updatedAt is set to the time of the write.
MongoUpdate(doc, field, value, now) == [doc EXCEPT ![field] = value, !.updatedAt = now]

\* Whether the update validators accept the write (runValidators: true): the status must be
\* in the schema's enum, a rating is any Number or null.
MongoValid(field, value) == field = "status" => value \in SchemaStatuses

\* The update a card click leads to: Firestore's handler writes the local cache at once,
\* the REST handler sends a PUT.
CardUpdate(i, field, value) ==
    IF backend = "firestore"
    THEN /\ store' = [store EXCEPT ![i] = FirestoreUpdate(@, field, value)]
         /\ appError' = "null"
         /\ UNCHANGED <<sent, restRequests>>
    ELSE /\ sent < MaxSent
         /\ sent' = sent + 1
         /\ restRequests' = restRequests \cup
                {[n |-> sent + 1, from |-> "card", field |-> field, id |-> i, value |-> value]}
         /\ UNCHANGED <<store, appError>>

\* The status button of card i is clicked: handleStatusChange, then App's handleUpdateStatus.
StatusClick(i) ==
    /\ i \in DOMAIN mediaItems
    /\ LET status == handleStatusChange(card, mediaItems[i]) IN
        IF backend = "firestore" /\ ~isValidMediaStatus(status)
        THEN /\ appError' = "Failed to update status: Invalid status value."
             /\ UNCHANGED <<store, sent, restRequests>>
        ELSE CardUpdate(i, "status", status)
    /\ UNCHANGED <<backend, card, mediaItems, restResponses, clock, nonStoreVars>>

\* A star of card i is clicked: onRate, then App's handleUpdateRating.
Rate(i, star) ==
    /\ i \in DOMAIN mediaItems
    /\ star \in Stars
    /\ RatingOffered(mediaItems[i])
    /\ LET rating == StarClick(mediaItems[i].rating, star) IN
        CardUpdate(i, "rating", IF backend = "firestore" THEN RatingToUpdate(rating) ELSE rating)
    /\ UNCHANGED <<backend, card, mediaItems, restResponses, clock, nonStoreVars>>

\* The Clear button of card i is clicked: onRate(null).
ClearRating(i) ==
    /\ i \in DOMAIN mediaItems
    /\ RatingOffered(mediaItems[i])
    /\ ClearOffered(mediaItems[i].rating)
    /\ CardUpdate(i, "rating", JsNull)
    /\ UNCHANGED <<backend, card, mediaItems, restResponses, clock, nonStoreVars>>

\* onSnapshot delivers the collection to the Firestore client.
Snapshot ==
    /\ backend = "firestore"
    /\ mediaItems # store
    /\ mediaItems' = store
    /\ UNCHANGED <<backend, card, store, appError, sent, restRequests, restResponses, clock,
                   nonStoreVars>>

\* The REST server handles PUT /api/media/:id/status or /rating; up is whether the database
\* connection is ready.
ServerHandles(r, up) ==
    /\ r \in restRequests
    /\ restRequests' = restRequests \ {r}
    /\ IF up /\ r.id \in DOMAIN store /\ MongoValid(r.field, r.value)
       THEN /\ clock' = clock + 1
            /\ store' = [store EXCEPT ![r.id] = MongoUpdate(@, r.field, r.value, clock + 1)]
            /\ restResponses' = restResponses \cup
                 (IF r.from = "card"
                  THEN {[n |-> r.n, field |-> r.field, id |-> r.id, ok |-> TRUE,
                         item |-> MongoUpdate(store[r.id], r.field, r.value, clock + 1)]}
                  ELSE {})
       ELSE /\ UNCHANGED <<store, clock>>
            /\ restResponses' = restResponses \cup
                 (IF r.from = "card"
                  THEN {[n |-> r.n, field |-> r.field, id |-> r.id, ok |-> FALSE]}
                  ELSE {})
    /\ UNCHANGED <<backend, card, mediaItems, appError, sent, nonStoreVars>>

\* The REST client's handler resumes with the response.
ClientReceives(resp) ==
    /\ resp \in restResponses
    /\ restResponses' = restResponses \ {resp}
    /\ IF resp.ok
       THEN /\ mediaItems' = [mediaItems EXCEPT ![resp.id] = resp.item]
            /\ UNCHANGED appError
       ELSE /\ appError' = (IF resp.field = "status" THEN "Failed to update status. Please try again."
                            ELSE "Failed to update rating. Please try again.")
            /\ UNCHANGED mediaItems
    /\ UNCHANGED <<backend, card, store, sent, restRequests, clock, nonStoreVars>>

\* Ratings another client of the REST API puts in the body of PUT /api/media/:id/rating.
ApiRatings == {JsNum(0), JsNum(3), JsNum(7)}

\* A client other than the app sends PUT /api/media/:id/rating.
ApiPutRating(i, rating) ==
    /\ backend = "rest"
    /\ sent < MaxSent
    /\ sent' = sent + 1
    /\ restRequests' = restRequests \cup
            {[n |-> sent + 1, from |-> "api", field |-> "rating", id |-> i, value |-> rating]}
    /\ UNCHANGED <<backend, card, store, mediaItems, appError, restResponses, clock, nonStoreVars>>

StoreInit ==
    /\ apiKey = "key"
    /\ AiIdle
    /\ SdkIdle
    /\ FormIdle
    /\ PanelIdle
    /\ FireIdle
    /\ backend \in {"firestore", "rest"}
    /\ card \in {"toggle", "cycle"}
    /\ store = [i \in Ids |-> Seed(backend, i)]
    /\ mediaItems = store
    /\ appError = "null"
    /\ sent = 0
    /\ restRequests = {}
    /\ restResponses = {}
    /\ clock = 0

StoreNext ==
    \/ \E i \in Ids : StatusClick(i)
    \/ \E i \in Ids : \E star \in ClickedStars : Rate(i, star)
    \/ \E i \in Ids : ClearRating(i)
    \/ Snapshot
    \/ \E r \in restRequests : \E up \in BOOLEAN : ServerHandles(r, up)
    \/ \E resp \in restResponses : ClientReceives(resp)

\* The app as the only client of the store.
StoreSpec == StoreInit /\ [][StoreNext]_vars

ApiNext ==
    \/ StoreNext
    \/ \E i \in Ids : \E rating \in ApiRatings : ApiPutRating(i, rating)

\* The app and other clients of the REST API.
ApiSpec == StoreInit /\ [][ApiNext]_vars

\* The item after the card in use has applied its status transition to it.
Clicked(item) == [item EXCEPT !.status = handleStatusChange(card, item)]

\* C15: for a displayed item in the pending status of its kind, three applications of the
\* card's status transition give in-progress, then completed, then pending again.
C15_StatusCycle ==
    \A i \in DOMAIN mediaItems :
        mediaItems[i].status = PendingOf(mediaItems[i].type) =>
            /\ Clicked(mediaItems[i]).status = InProgressOf(mediaItems[i].type)
            /\ Clicked(Clicked(mediaItems[i])).status = CompletedOf(mediaItems[i].type)
            /\ Clicked(Clicked(Clicked(mediaItems[i]))).status = PendingOf(mediaItems[i].type)

\* C16: every stored rating is null or an integer from 1 to 5.
C16_RatingInRange ==
    \A i \in DOMAIN store :
        \/ store[i].rating = JsNull
        \/ store[i].rating.k = "num" /\ store[i].rating.n \in 1..5

\* C17: a stored item has a non-null rating only while its status is watched or read.
C17_RatedOnlyWhileCompleted ==
    \A i \in DOMAIN store : store[i].rating # JsNull => store[i].status \in {"watched", "read"}

\* C17 (amended): a rating update is issued through a card only while the card displays a
\* completed status, and a change of an item's status leaves its stored rating as it is.
C17_RatedFromCompletedCard ==
    [][\A i \in DOMAIN store :
          /\ store'[i].status # store[i].status => store'[i].rating = store[i].rating
          /\ (\/ backend = "firestore" /\ store'[i].rating # store[i].rating
              \/ \E r \in restRequests' \ restRequests :
                    r.from = "card" /\ r.field = "rating" /\ r.id = i)
                => mediaItems[i].status \in {"watched", "read"}]_vars

\* A movie rated while watched is back in to-watch and still carries the rating.
C17_Witness ==
    /\ store[1].status = "to-watch"
    /\ store[1].rating = JsNum(3)
    /\ mediaItems = store

\* The fields in which two versions of a record differ.
Differing(old, new) == {f \in DOMAIN old : new[f] # old[f]}

C27_SettledCopyIsStored ==
    \A i \in DOMAIN store :
        (/\ backend = "rest"
         /\ \A r \in restRequests : r.id # i
         /\ \A resp \in restResponses : resp.id # i) => mediaItems[i] = store[i]

\* ---------------------------------------------------------------------------------------
\* The Suggestions panel: src/components/Suggestions.tsx
\* ---------------------------------------------------------------------------------------

\* A promise that has not resolved yet.
Pending == [k |-> "pending"]

\* What fetchSuggestions resolves to for each kind: nothing, or one suggestion whose title
\* tells the kinds apart. fetchSuggestions does not reject.
PanelTitle(side) == IF side = "movie" THEN "Dunkirk" ELSE "Dune"
PanelItem(side) == WithField(Without(ItemDune, "type"), "title", PanelTitle(side))
SideResults(side) == {<<>>, <<PanelItem(side)>>}

\* What fetchSurpriseSuggestion resolves to.
SurpriseResults == {JsNull, JsArray(<<>>), JsArray(<<ItemMovie>>)}

\* res.map(s => ({...s, type}))
Tag(items, type) == [i \in 1..Len(items) |-> WithField(items[i], "type", type)]

\* setMovieSuggestions(movieRes.map(s => ({...s, type: MediaType.Movie})))
\* Variant: the movie slot is filled from the book result.
MovieSlot_FromBook(movieRes, bookRes) == Tag(bookRes, "movie")
MovieSlot(movieRes, bookRes) == Tag(movieRes, "movie")

\* setBookSuggestions(bookRes.map(s => ({...s, type: MediaType.Book})))
BookSlot(movieRes, bookRes) == Tag(bookRes, "book")

\* generateSuggestions after the await: both results are written, the flag is reset.
GenerateContinues(movieRes, bookRes) ==
    /\ movieSuggestions' = MovieSlot(movieRes, bookRes)
    /\ bookSuggestions' = BookSlot(movieRes, bookRes)
    /\ panelIsLoading' = FALSE

\* 'Get New Suggestions' is clicked (disabled while isLoading): generateSuggestions up to the
\* await. A kind without top genres contributes Promise.resolve([]); with both kinds so, the
\* await completes before any other event.
GenerateClick(hasMovieGenres, hasBookGenres) ==
    /\ ~panelIsLoading
    /\ clicks < MaxClicks
    /\ clicks' = clicks + 1
    /\ panelShowSuggestions' = TRUE
    /\ surprise' = JsNull
    /\ IF hasMovieGenres \/ hasBookGenres
       THEN /\ panelIsLoading' = TRUE
            /\ movieSuggestions' = <<>>
            /\ bookSuggestions' = <<>>
            /\ genCalls' = genCalls \cup
                 {[n |-> clicks + 1,
                   movie |-> IF hasMovieGenres THEN Pending ELSE JsArray(<<>>),
                   book |-> IF hasBookGenres THEN Pending ELSE JsArray(<<>>)]}
       ELSE /\ GenerateContinues(<<>>, <<>>)
            /\ UNCHANGED genCalls
    /\ UNCHANGED <<isSurpriseLoading, surpriseCalls, nonPanelVars>>

\* The request of one kind of invocation c resolves; when it is the second to resolve,
\* Promise.all resolves and generateSuggestions continues.
SideResolves(c, side, items) ==
    /\ c \in genCalls
    /\ c[side] = Pending
    /\ LET d == [c EXCEPT ![side] = JsArray(items)] IN
        IF d.movie # Pending /\ d.book # Pending
        THEN /\ genCalls' = genCalls \ {c}
             /\ GenerateContinues(d.movie.items, d.book.items)
        ELSE /\ genCalls' = (genCalls \ {c}) \cup {d}
             /\ UNCHANGED <<movieSuggestions, bookSuggestions, panelIsLoading>>
    /\ UNCHANGED <<surprise, isSurpriseLoading, panelShowSuggestions, clicks, surpriseCalls,
                   nonPanelVars>>

\* 'Surprise Me!' is clicked (disabled while isSurpriseLoading): handleSurpriseMe up to the await.
SurpriseClick ==
    /\ ~isSurpriseLoading
    /\ clicks < MaxClicks
    /\ clicks' = clicks + 1
    /\ isSurpriseLoading' = TRUE
    /\ panelShowSuggestions' = TRUE
    /\ movieSuggestions' = <<>>
    /\ bookSuggestions' = <<>>
    /\ surprise' = JsNull
    /\ surpriseCalls' = surpriseCalls \cup {[n |-> clicks + 1]}
    /\ UNCHANGED <<panelIsLoading, genCalls, nonPanelVars>>

\* handleSurpriseMe after the await.
SurpriseResolves(c, result) ==
    /\ c \in surpriseCalls
    /\ surpriseCalls' = surpriseCalls \ {c}
    /\ surprise' = IF result # JsNull THEN result ELSE surprise
    /\ isSurpriseLoading' = FALSE
    /\ UNCHANGED <<movieSuggestions, bookSuggestions, panelIsLoading, panelShowSuggestions,
                   clicks, genCalls, nonPanelVars>>

\* handleClearAndClose; its button is rendered while the panel is open.
ClearAndClose ==
    /\ panelShowSuggestions
    /\ movieSuggestions' = <<>>
    /\ bookSuggestions' = <<>>
    /\ surprise' = JsNull
    /\ panelIsLoading' = FALSE
    /\ isSurpriseLoading' = FALSE
    /\ panelShowSuggestions' = FALSE
    /\ UNCHANGED <<clicks, genCalls, surpriseCalls, nonPanelVars>>

PanelInit ==
    /\ apiKey = "key"
    /\ AiIdle
    /\ SdkIdle
    /\ FormIdle
    /\ StoreIdle
    /\ PanelIdle
    /\ FireIdle

PanelNext ==
    \/ \E hasMovieGenres, hasBookGenres \in BOOLEAN : GenerateClick(hasMovieGenres, hasBookGenres)
    \/ \E c \in genCalls : \E side \in {"movie", "book"} : \E items \in SideResults(side) :
            SideResolves(c, side, items)
    \/ SurpriseClick
    \/ \E c \in surpriseCalls : \E result \in SurpriseResults : SurpriseResolves(c, result)
    \/ ClearAndClose

PanelSpec == PanelInit /\ [][PanelNext]_vars

\* Each slot holds only results of its own kind's request, tagged with its own kind.
SlotsSeparate ==
    /\ \A i \in DOMAIN movieSuggestions :
          Prop(movieSuggestions[i], "title") = "Dunkirk" /\ Prop(movieSuggestions[i], "type") = "movie"
    /\ \A i \in DOMAIN bookSuggestions :
          Prop(bookSuggestions[i], "title") = "Dune" /\ Prop(bookSuggestions[i], "type") = "book"

\* An invocation of generateSuggestions leaves Promise.all in this step.
Joined == \E c \in genCalls : \A d \in genCalls' : d.n # c.n

\* A result is written to a slot only in the step in which both requests have resolved.
WrittenWhenJoined ==
    (\/ movieSuggestions' # movieSuggestions /\ movieSuggestions' # <<>>
     \/ bookSuggestions' # bookSuggestions /\ bookSuggestions' # <<>>) => Joined

\* C20: the two requests of generateSuggestions are awaited jointly: no result is written
\* before both have resolved, each result goes to its own slot, and the loading flag is true
\* as long as an invocation has a request that has not resolved.
C20_JointAwaitKeepsLoading ==
    /\ [](SlotsSeparate /\ (genCalls # {} => panelIsLoading))
    /\ [][WrittenWhenJoined]_vars

\* C20 (amended): no result is written before both have resolved, each result goes to its
\* own slot, the click sets the loading flag, and the flag is reset only when an invocation's
\* requests have both resolved or when 'Clear and close' is clicked.
C20_JointAwait ==
    /\ []SlotsSeparate
    /\ [][/\ WrittenWhenJoined
          /\ (\E d \in genCalls' : \A c \in genCalls : c.n # d.n) => panelIsLoading'
          /\ (panelIsLoading /\ ~panelIsLoading') =>
                (Joined \/ (panelShowSuggestions /\ ~panelShowSuggestions'))]_vars

\* Both requests of one invocation have resolved and each slot holds its own kind's result.
C20_Witness ==
    /\ genCalls = {}
    /\ ~panelIsLoading
    /\ Len(movieSuggestions) = 1
    /\ Len(bookSuggestions) = 1
    /\ SlotsSeparate

\* C29: surprise picks and personalised suggestions are never both non-empty.
C29_SurpriseOrPersonalised ==
    ~(/\ surprise # JsNull /\ Len(surprise.items) > 0
      /\ (Len(movieSuggestions) > 0 \/ Len(bookSuggestions) > 0))

\* ---------------------------------------------------------------------------------------
\* The Firestore app: src/App.tsx lines 183-707 (authentication, the snapshot listener,
\* the handlers that write the user's collection)
\* ---------------------------------------------------------------------------------------

Users == {"u1", "u2"}

\* title.toLowerCase(), for the titles the model generates.
Lower(title) ==
    CASE title = "Dune" -> "dune"
      [] title = "DUNE" -> "dune"
      [] title = "Dunkirk" -> "dunkirk"
      [] OTHER -> title

\* The order a.title.localeCompare(b.title) puts the titles in.
TitleRank(title) ==
    CASE title = "" -> 0
      [] title = "Dune" -> 1
      [] title = "DUNE" -> 2
      [] OTHER -> 3

\* isValidMediaType
isValidMediaType(type) == type = "movie" \/ type = "book"

\* The documents a collection holds when the app starts: written by this app, by an older
\* version of it or by hand, so not all of them pass the listener's validation.
SeedDocs(u) ==
    IF u = "u1"
    THEN {[id |-> 11, type |-> "movie", title |-> "Dunkirk", status |-> "to-watch", rating |-> [k |-> "str"]],
          [id |-> 12, type |-> "series", title |-> "Dune", status |-> "watched", rating |-> JsNum(4)],
          [id |-> 13, type |-> "book", title |-> "Dunkirk", status |-> "done", rating |-> JsNull],
          [id |-> 14, type |-> "book", title |-> "", status |-> "to-read", rating |-> JsNull]}
    ELSE {}

\* isValidMediaType(dataType) && isValidMediaStatus(dataStatus) && data.title
\* Variant: the status is not validated.
DocValid_AnyStatus(doc) == isValidMediaType(doc.type) /\ doc.title # ""
DocValid(doc) == isValidMediaType(doc.type) /\ isValidMediaStatus(doc.status) /\ doc.title # ""

\* items.push({ id: doc.id, ..., rating: typeof data.rating === 'number' ? data.rating : null })
MapDoc(doc) ==
    [id |-> doc.id, type |-> doc.type, title |-> doc.title, status |-> doc.status,
     rating |-> IF doc.rating.k = "num" THEN doc.rating ELSE JsNull]

\* items.sort((a, b) => a.title.localeCompare(b.title)); the documents come in id order and
\* the sort is stable.
RECURSIVE SortByTitle(_)
SortByTitle(S) ==
    IF S = {} THEN <<>>
    ELSE LET first == CHOOSE x \in S : \A y \in S :
                        \/ TitleRank(x.title) < TitleRank(y.title)
                        \/ TitleRank(x.title) = TitleRank(y.title) /\ x.id <= y.id
         IN  <<first>> \o SortByTitle(S \ {first})

\* The list the onSnapshot callback computes from the documents.
SnapshotItems(docs) == SortByTitle({MapDoc(doc) : doc \in {d \in docs : DocValid(d)}})

\* The listener effect's cleanup: unsubscribeFirestore().
\* Variant: the effect returns no cleanup.
ListenerCleanup_Missing(ls) == ls
ListenerCleanup(ls) == {}

\* The onAuthStateChanged callback runs with the next auth state.
AuthCallback ==
    /\ authEvents # <<>>
    /\ authEvents' = Tail(authEvents)
    /\ userId' = (IF Head(authEvents) = "none" THEN "null" ELSE Head(authEvents))
    /\ isAuthReady' = TRUE
    /\ effectDue' = (effectDue \/ ~isAuthReady \/ userId' # userId)
    /\ UNCHANGED <<authUser, signIns, signOutPending, listeners, snapshotDue, collections,
                   calls, fireItems, fireError, fireLoading, nonFireVars>>

\* The effect on [isAuthReady, userId] runs: the previous run's cleanup, then its body.
ListenerEffect ==
    /\ effectDue
    /\ effectDue' = FALSE
    /\ IF ~isAuthReady \/ userId = "null"
       THEN /\ listeners' = ListenerCleanup(listeners)
            /\ snapshotDue' = (snapshotDue /\ listeners' # {})
            /\ fireLoading' = ~isAuthReady
            /\ fireItems' = (IF isAuthReady THEN <<>> ELSE fireItems)
            /\ UNCHANGED fireError
       ELSE /\ listeners' = ListenerCleanup(listeners) \cup {userId}
            /\ snapshotDue' = TRUE
            /\ fireLoading' = TRUE
            /\ fireError' = "null"
            /\ UNCHANGED fireItems
    /\ UNCHANGED <<authUser, authEvents, signIns, userId, isAuthReady, signOutPending,
                   collections, calls, nonFireVars>>

\* The onSnapshot callback of the listener on u's collection runs.
SnapshotCallback(u) ==
    /\ u \in listeners
    /\ snapshotDue
    /\ snapshotDue' = FALSE
    /\ fireItems' = SnapshotItems(collections[u])
    /\ fireLoading' = FALSE
    /\ UNCHANGED <<authUser, authEvents, signIns, userId, isAuthReady, effectDue, signOutPending,
                   listeners, collections, calls, fireError, nonFireVars>>

\* The onSnapshot error callback runs: the listener's user is no longer the signed-in one.
SnapshotError(u) ==
    /\ u \in listeners
    /\ authUser # u
    /\ fireError # "Failed to load watchlist data. Check Firestore rules or network connection."
    /\ snapshotDue' = FALSE
    /\ fireError' = "Failed to load watchlist data. Check Firestore rules or network connection."
    /\ fireLoading' = FALSE
    /\ UNCHANGED <<authUser, authEvents, signIns, userId, isAuthReady, effectDue, signOutPending,
                   listeners, collections, calls, fireItems, nonFireVars>>

\* 'Sign in with Google' on the login screen: handleGoogleSignIn; ok is whether the popup
\* succeeds.
SignInClick(u, ok) ==
    /\ isAuthReady
    /\ userId = "null"
    /\ ~signOutPending
    /\ signIns < MaxSignIns
    /\ signIns' = signIns + 1
    /\ IF ok
       THEN /\ authUser' = u
            /\ authEvents' = Append(authEvents, u)
            /\ fireError' = "null"
       ELSE /\ fireError' = "Failed to sign in: Unknown auth error."
            /\ UNCHANGED <<authUser, authEvents>>
    /\ UNCHANGED <<userId, isAuthReady, effectDue, signOutPending, listeners, snapshotDue,
                   collections, calls, fireItems, fireLoading, nonFireVars>>

\* Sign out in the header (shown while a user is set): handleSignOut up to the end of its await.
\* Firebase Auth notifies onAuthStateChanged when the signed-in user changes.
SignOutClick(ok) ==
    /\ userId # "null"
    /\ ~signOutPending
    /\ IF ok
       THEN /\ authUser' = "none"
            /\ authEvents' = (IF authUser = "none" THEN authEvents ELSE Append(authEvents, "none"))
            /\ signOutPending' = TRUE
            /\ UNCHANGED fireError
       ELSE /\ fireError' = "Failed to sign out: Unknown auth error."
            /\ UNCHANGED <<authUser, authEvents, signOutPending>>
    /\ UNCHANGED <<signIns, userId, isAuthReady, effectDue, listeners, snapshotDue, collections,
                   calls, fireItems, fireLoading, nonFireVars>>

\* handleSignOut after the await: setMediaItems([]).
SignOutContinues ==
    /\ signOutPending
    /\ signOutPending' = FALSE
    /\ fireItems' = <<>>
    /\ UNCHANGED <<authUser, authEvents, signIns, userId, isAuthReady, effectDue, listeners,
                   snapshotDue, collections, calls, fireError, fireLoading, nonFireVars>>

\* The records the add form and the Suggestions panel hand to handleAddItem.
AddItems ==
    {[type |-> "book", title |-> "Dune", status |-> "to-read", rating |-> JsNull],
     [type |-> "book", title |-> "DUNE", status |-> "to-read", rating |-> JsNull],
     [type |-> "book", title |-> "", status |-> "to-read", rating |-> JsNull]}

\* mediaItems.some(item => item.title.toLowerCase() === newItemData.title.toLowerCase()
\*                         && item.type === newItemData.type)
\* Variant: the titles are compared as they are.
Exists_CaseSensitive(items, newItemData) ==
    \E i \in DOMAIN items : items[i].title = newItemData.title /\ items[i].type = newItemData.type
Exists(items, newItemData) ==
    \E i \in DOMAIN items :
        Lower(items[i].title) = Lower(newItemData.title) /\ items[i].type = newItemData.type

\* `"${newItemData.title}" is already in your list.`
AlreadyInList(title) ==
    CASE title = "Dune" -> "\"Dune\" is already in your list."
      [] title = "DUNE" -> "\"DUNE\" is already in your list."
      [] OTHER -> "\"Dunkirk\" is already in your list."

\* getCollectionRef() returns null: no user id.
\* Variant: the user id is not checked.
NoCollectionRef_Unchecked(uid) == FALSE
NoCollectionRef(uid) == uid = "null"

\* The id of the user whose collection a handler writes, when getCollectionRef is not null.
Target == IF userId \in Users THEN userId ELSE "u1"

\* handleAddItem; ok is whether addDoc succeeds.
HandleAddItem(newItemData, ok) ==
    /\ calls < MaxCalls
    /\ calls' = calls + 1
    /\ IF NoCollectionRef(userId)
       THEN /\ fireError' = "Cannot add item: Database connection or user ID is missing."
            /\ UNCHANGED <<collections, snapshotDue>>
       ELSE IF newItemData.title = ""
       THEN /\ fireError' = "Cannot add item: Missing title, type, or status."
            /\ UNCHANGED <<collections, snapshotDue>>
       ELSE IF Exists(fireItems, newItemData)
       THEN /\ fireError' = AlreadyInList(newItemData.title)
            /\ UNCHANGED <<collections, snapshotDue>>
       ELSE IF ok
       THEN /\ fireError' = "null"
            /\ collections' = [collections EXCEPT ![Target] = @ \cup
                    {[id |-> calls + 1, type |-> newItemData.type, title |-> newItemData.title,
                      status |-> newItemData.status, rating |-> newItemData.rating]}]
            /\ snapshotDue' = (snapshotDue \/ Target \in listeners)
       ELSE /\ fireError' = "Failed to add item: Unknown Firestore error."
            /\ UNCHANGED <<collections, snapshotDue>>
    /\ UNCHANGED <<authUser, authEvents, signIns, userId, isAuthReady, effectDue, signOutPending,
                   listeners, fireItems, fireLoading, nonFireVars>>

\* handleDeleteItem.
HandleDeleteItem(id) ==
    /\ calls < MaxCalls
    /\ calls' = calls + 1
    /\ IF NoCollectionRef(userId)
       THEN /\ fireError' = "Cannot delete item: Database connection or user ID is missing."
            /\ UNCHANGED <<collections, snapshotDue>>
       ELSE /\ fireError' = "null"
            /\ collections' = [collections EXCEPT ![Target] = {d \in @ : d.id # id}]
            /\ snapshotDue' = (snapshotDue \/ Target \in listeners)
    /\ UNCHANGED <<authUser, authEvents, signIns, userId, isAuthReady, effectDue, signOutPending,
                   listeners, fireItems, fireLoading, nonFireVars>>

\* updateDoc(doc(collRef, id), { [field]: value }) in the handlers' try block: the document is
\* written, or the call rejects because there is no such document.
UpdateDoc(id, field, value, failure) ==
    IF \E d \in collections[Target] : d.id = id
    THEN /\ fireError' = "null"
         /\ collections' = [collections EXCEPT ![Target] =
                {IF d.id = id THEN FirestoreUpdate(d, field, value) ELSE d : d \in @}]
         /\ snapshotDue' = (snapshotDue \/ Target \in listeners)
    ELSE /\ fireError' = failure
         /\ UNCHANGED <<collections, snapshotDue>>

\* handleUpdateStatus of the Firestore app.
HandleUpdateStatus(id, status) ==
    /\ calls < MaxCalls
    /\ calls' = calls + 1
    /\ IF NoCollectionRef(userId)
       THEN /\ fireError' = "Cannot update status: Database connection or user ID is missing."
            /\ UNCHANGED <<collections, snapshotDue>>
       ELSE IF ~isValidMediaStatus(status)
       THEN /\ fireError' = "Failed to update status: Invalid status value."
            /\ UNCHANGED <<collections, snapshotDue>>
       ELSE UpdateDoc(id, "status", status, "Failed to update status: Unknown Firestore error.")
    /\ UNCHANGED <<authUser, authEvents, signIns, userId, isAuthReady, effectDue, signOutPending,
                   listeners, fireItems, fireLoading, nonFireVars>>

\* handleUpdateRating of the Firestore app.
HandleUpdateRating(id, rating) ==
    /\ calls < MaxCalls
    /\ calls' = calls + 1
    /\ IF NoCollectionRef(userId)
       THEN /\ fireError' = "Cannot update rating: Database connection or user ID is missing."
            /\ UNCHANGED <<collections, snapshotDue>>
       ELSE UpdateDoc(id, "rating", RatingToUpdate(rating), "Failed to update rating: Unknown Firestore error.")
    /\ UNCHANGED <<authUser, authEvents, signIns, userId, isAuthReady, effectDue, signOutPending,
                   listeners, fireItems, fireLoading, nonFireVars>>

\* The ids the handlers are called with: those of the displayed items, and one whose document
\* is no longer in the collection.
TargetIds == {fireItems[i].id : i \in DOMAIN fireItems} \cup {15}

\* The statuses and ratings the handlers are called with.
TargetStatuses == {"watched", "done"}
TargetRatings == {JsNum(5)}

\* The app is mounted: Firebase Auth reports the persisted user, the listener effect has run
\* once without a user.
FireInit ==
    /\ apiKey = "key"
    /\ AiIdle
    /\ SdkIdle
    /\ FormIdle
    /\ StoreIdle
    /\ PanelIdle
    /\ authUser \in {"none", "u1"}
    /\ authEvents = <<authUser>>
    /\ signIns = 0
    /\ userId = "null"
    /\ isAuthReady = FALSE
    /\ effectDue = FALSE
    /\ signOutPending = FALSE
    /\ listeners = {}
    /\ snapshotDue = FALSE
    /\ collections = [u \in Users |-> SeedDocs(u)]
    /\ calls = 0
    /\ fireItems = <<>>
    /\ fireError = "null"
    /\ fireLoading = TRUE

FireNext ==
    \/ AuthCallback
    \/ ListenerEffect
    \/ \E u \in Users : SnapshotCallback(u)
    \/ \E u \in Users : SnapshotError(u)
    \/ \E u \in Users : \E ok \in BOOLEAN : SignInClick(u, ok)
    \/ \E ok \in BOOLEAN : SignOutClick(ok)
    \/ SignOutContinues
    \/ \E newItemData \in AddItems : \E ok \in BOOLEAN : HandleAddItem(newItemData, ok)
    \/ \E id \in TargetIds : HandleDeleteItem(id)
    \/ \E id \in TargetIds : \E status \in TargetStatuses : HandleUpdateStatus(id, status)
    \/ \E id \in TargetIds : \E rating \in TargetRatings : HandleUpdateRating(id, rating)

FireSpec == FireInit /\ [][FireNext]_vars

\* A step in which the onSnapshot callback of the subscribed listener runs.
SnapshotStep == snapshotDue /\ ~snapshotDue' /\ UNCHANGED <<effectDue, fireError, listeners>>

\* A document that passes the three checks of the listener.
PassesChecks(d) ==
    /\ d.type \in {"movie", "book"}
    /\ d.status \in {"to-watch", "watching", "watched", "to-read", "reading", "read"}
    /\ d.title # ""

\* The positions of the displayed list that show the document with this id.
ShownAt(items, id) == {i \in DOMAIN items : items[i].id = id}

\* C21: after every Firestore snapshot the displayed list has exactly one record, with the
\* document's id, type, status and title, for every document of the snapshot that has a valid
\* type, a valid status and a non-empty title, and no record for any other document; so every
\* displayed record has a valid type and status.
C21_SnapshotShowsValidDocs ==
    [][SnapshotStep =>
        \A u \in listeners :
            /\ \A d \in collections[u] :
                Cardinality(ShownAt(fireItems', d.id)) = (IF PassesChecks(d) THEN 1 ELSE 0)
            /\ \A i \in DOMAIN fireItems' :
                /\ \E d \in collections[u] :
                    /\ d.id = fireItems'[i].id
                    /\ d.type = fireItems'[i].type
                    /\ d.status = fireItems'[i].status
                    /\ d.title = fireItems'[i].title
                /\ fireItems'[i].type \in {"movie", "book"}
                /\ fireItems'[i].status \in {"to-watch", "watching", "watched", "to-read", "reading", "read"}]_vars

\* A snapshot with two valid documents and three skipped ones has been displayed.
C21_Witness ==
    /\ userId = "u1"
    /\ listeners = {"u1"}
    /\ ~snapshotDue
    /\ Len(fireItems) = 2
    /\ Cardinality(collections["u1"]) = 5
    /\ \E d \in collections["u1"] : d.status = "done"

\* The list is displayed, which renderContent does only while a user id is set, and has an
\* item of the same type whose title equals this one up to case.
Displayed(newItemData) ==
    /\ userId # "null"
    /\ \E i \in DOMAIN fireItems :
        /\ fireItems[i].type = newItemData.type
        /\ Lower(fireItems[i].title) = Lower(newItemData.title)

C23_NoTwoDocsWithOneTitle ==
    \A u \in Users : \A d1, d2 \in collections[u] :
        (d1.type = d2.type /\ Lower(d1.title) = Lower(d2.title)) => d1.id = d2.id

\* Two adds were made before the next snapshot arrived, and
\* the snapshot that followed displays both copies.
BothCopiesDisplayed ==
    /\ userId = "u1"
    /\ ~fireLoading
    /\ \E i, j \in DOMAIN fireItems :
        /\ i # j
        /\ fireItems[i].type = fireItems[j].type
        /\ Lower(fireItems[i].title) = Lower(fireItems[j].title)

\* A step of one of the four handlers, and the message the handler has for a missing user id.
HandlerStep(message) ==
    \/ /\ message = "Cannot add item: Database connection or user ID is missing."
       /\ \E newItemData \in AddItems : \E ok \in BOOLEAN : HandleAddItem(newItemData, ok)
    \/ /\ message = "Cannot delete item: Database connection or user ID is missing."
       /\ \E id \in TargetIds : HandleDeleteItem(id)
    \/ /\ message = "Cannot update status: Database connection or user ID is missing."
       /\ \E id \in TargetIds : \E status \in TargetStatuses : HandleUpdateStatus(id, status)
    \/ /\ message = "Cannot update rating: Database connection or user ID is missing."
       /\ \E id \in TargetIds : \E rating \in TargetRatings : HandleUpdateRating(id, rating)

MissingUserMessages ==
    {"Cannot add item: Database connection or user ID is missing.",
     "Cannot delete item: Database connection or user ID is missing.",
     "Cannot update status: Database connection or user ID is missing.",
     "Cannot update rating: Database connection or user ID is missing."}

EffectsRun == authEvents = <<>> /\ ~effectDue /\ ~signOutPending

\* C25 as stated: once the authentication check is done, no user is signed in and the effects
\* have run, the displayed list is empty and no listener is subscribed; at any time at most
\* one listener is subscribed, and it listens on the collection of the current user.
C25_OneListenerOfCurrentUser ==
    /\ (isAuthReady /\ userId = "null" /\ EffectsRun) => (fireItems = <<>> /\ listeners = {})
    /\ Cardinality(listeners) <= 1
    /\ \A u \in listeners : u = userId

\* C25 amended: the first part as stated; at any time at most one listener is subscribed, and
\* once the effects have run it listens on the collection of the current user.
C25_OneListener ==
    /\ (isAuthReady /\ userId = "null" /\ EffectsRun) => (fireItems = <<>> /\ listeners = {})
    /\ Cardinality(listeners) <= 1
    /\ EffectsRun => \A u \in listeners : u = userId

\* After a sign-out and a sign-in as another user the effects have run: the listener is the
\* new user's.
C25_Witness ==
    /\ EffectsRun
    /\ signIns = 1
    /\ userId = "u2"
    /\ listeners = {"u2"}
    /\ ~snapshotDue

\* ---------------------------------------------------------------------------------------
\* The REST client of App.tsx with add and delete. Here mediaItems is the list in display
\* order and store the set of the server's documents; each record carries its id.

\* The documents the server holds and the list GET /api/media has loaded when the app is idle.
RestSeed(i) ==
    [id |-> i, type |-> SeedType(i), title |-> TitleFor(<<>>), status |-> PendingOf(SeedType(i)),
     rating |-> JsNull, updatedAt |-> 0]

\* The bodies of POST /api/media: a record of the add form, and one the schema rejects.
RestNewItems ==
    {[type |-> "book", title |-> TitleFor(<<>>), status |-> "to-read", rating |-> JsNull],
     [type |-> "book", title |-> TitleFor(<<>>), status |-> "reading", rating |-> JsNull]}

\* new MediaItem(body).save() passes the schema's validators.
PostValid(body) ==
    body.type \in {"movie", "book"} /\ body.status \in SchemaStatuses /\ body.title # ""

\* The ids of the list.
ListIds(items) == {items[i].id : i \in DOMAIN items}

\* A handler of the REST client runs up to its fetch: the request is on its way.
RestFetch(kind, id, value) ==
    /\ sent < MaxFetches
    /\ sent' = sent + 1
    /\ restRequests' = restRequests \cup {[n |-> sent + 1, kind |-> kind, id |-> id, value |-> value]}
    /\ UNCHANGED <<backend, card, store, mediaItems, appError, restResponses, clock, nonStoreVars>>

\* The fetch rejects: the request never gets a response.
RestFetchRejects(r) ==
    /\ r \in restRequests
    /\ restRequests' = restRequests \ {r}
    /\ restResponses' = restResponses \cup {[n |-> r.n, kind |-> r.kind, id |-> r.id, ok |-> FALSE]}
    /\ UNCHANGED <<backend, card, store, mediaItems, appError, sent, clock, nonStoreVars>>

\* The server handles the request; up is whether the database connection is ready. The
\* response is ok with the record the route returns, or not ok.
RestServer(r, up) ==
    /\ r \in restRequests
    /\ restRequests' = restRequests \ {r}
    /\ clock' = clock + 1
    /\ LET old == {d \in store : d.id = r.id}
           new == IF r.kind = "add"
                  THEN [id |-> MaxDocs + r.n, type |-> r.value.type, title |-> r.value.title,
                        status |-> r.value.status, rating |-> r.value.rating,
                        updatedAt |-> clock + 1]
                  ELSE IF old = {} \/ r.kind = "delete" THEN JsNull
                  ELSE MongoUpdate(CHOOSE d \in old : TRUE, r.kind, r.value, clock + 1)
           accepted ==
               /\ up
               /\ r.kind = "add" => PostValid(r.value)
               /\ r.kind # "add" => old # {}
               /\ r.kind \in {"status", "rating"} => MongoValid(r.kind, r.value)
       IN  IF accepted
           THEN /\ store' = (store \ old) \cup (IF r.kind = "delete" THEN {} ELSE {new})
                /\ restResponses' = restResponses \cup
                        {[n |-> r.n, kind |-> r.kind, id |-> r.id, ok |-> TRUE, item |-> new]}
           ELSE /\ UNCHANGED store
                /\ restResponses' = restResponses \cup
                        {[n |-> r.n, kind |-> r.kind, id |-> r.id, ok |-> FALSE]}
    /\ UNCHANGED <<backend, card, mediaItems, appError, sent, nonStoreVars>>

\* setMediaItems(prevItems => [addedItem, ...prevItems])
\* Variant: the new item goes to the end of the list.
AddedLocally_AtEnd(prevItems, addedItem) == Append(prevItems, addedItem)
AddedLocally(prevItems, addedItem) == <<addedItem>> \o prevItems

\* prevItems.filter(item => item.id !== id)
DeletedLocally(prevItems, id) == SelectSeq(prevItems, LAMBDA item : item.id # id)

\* prevItems.map(item => item.id === id ? updatedItem : item)
UpdatedLocally(prevItems, id, updatedItem) ==
    [i \in DOMAIN prevItems |-> IF prevItems[i].id = id THEN updatedItem ELSE prevItems[i]]

\* The message the catch block of the handler sets.
RestFailure(kind) ==
    CASE kind = "add" -> "Failed to add item. Please try again."
      [] kind = "delete" -> "Failed to delete item. Please try again."
      [] kind = "status" -> "Failed to update status. Please try again."
      [] OTHER -> "Failed to update rating. Please try again."

\* The handler resumes after its fetch.
RestResume(resp) ==
    /\ resp \in restResponses
    /\ restResponses' = restResponses \ {resp}
    /\ IF resp.ok
       THEN /\ mediaItems' = (CASE resp.kind = "add" -> AddedLocally(mediaItems, resp.item)
                                [] resp.kind = "delete" -> DeletedLocally(mediaItems, resp.id)
                                [] OTHER -> UpdatedLocally(mediaItems, resp.id, resp.item))
            /\ UNCHANGED appError
       ELSE /\ appError' = RestFailure(resp.kind)
            /\ UNCHANGED mediaItems
    /\ UNCHANGED <<backend, card, store, sent, restRequests, clock, nonStoreVars>>

RestInit ==
    /\ apiKey = "key"
    /\ AiIdle
    /\ SdkIdle
    /\ FormIdle
    /\ PanelIdle
    /\ FireIdle
    /\ backend = "rest"
    /\ card \in {"toggle", "cycle"}
    /\ store = {RestSeed(i) : i \in Ids}
    /\ mediaItems = [i \in Ids |-> RestSeed(i)]
    /\ appError = "null"
    /\ sent = 0
    /\ restRequests = {}
    /\ restResponses = {}
    /\ clock = 0

RestNext ==
    \/ \E newItem \in RestNewItems : RestFetch("add", 0, newItem)
    \/ \E i \in DOMAIN mediaItems : RestFetch("delete", mediaItems[i].id, JsNull)
    \/ \E i \in DOMAIN mediaItems :
            RestFetch("status", mediaItems[i].id, handleStatusChange(card, mediaItems[i]))
    \/ \E i \in DOMAIN mediaItems : RestFetch("rating", mediaItems[i].id, JsNum(5))
    \/ \E r \in restRequests : RestFetchRejects(r)
    \/ \E r \in restRequests : \E up \in BOOLEAN : RestServer(r, up)
    \/ \E resp \in restResponses : RestResume(resp)

RestSpec == RestInit /\ [][RestNext]_vars

\* The response a step of a handler's continuation consumes.
Consumed == restResponses \ restResponses'

\* C26: when a request of the REST client fails, the list is unchanged and the handler's error
\* message is set; when an add succeeds the returned record is put at the head of the list,
\* when a delete succeeds the item with the id is removed, when an update succeeds the item
\* with the id is replaced by the returned record; every other item stays as and where it was.
C26_LocalListFollowsResponse ==
    [][\A resp \in Consumed :
        /\ ~resp.ok => (mediaItems' = mediaItems /\ appError' = RestFailure(resp.kind))
        /\ (resp.ok /\ resp.kind = "add") =>
                /\ Len(mediaItems') = Len(mediaItems) + 1
                /\ Head(mediaItems') = resp.item
                /\ Tail(mediaItems') = mediaItems
        /\ (resp.ok /\ resp.kind = "delete") =>
                /\ resp.id \notin ListIds(mediaItems')
                /\ mediaItems' = SelectSeq(mediaItems, LAMBDA item : item.id # resp.id)
        /\ (resp.ok /\ resp.kind \in {"status", "rating"}) =>
                /\ Len(mediaItems') = Len(mediaItems)
                /\ \A i \in DOMAIN mediaItems :
                    mediaItems'[i] = (IF mediaItems[i].id = resp.id THEN resp.item
                                      ELSE mediaItems[i])]_vars

\* An add and a failed delete have both resolved: the new record is at the head, the items
\* that were there follow it unchanged and the message of the delete is set.
C26_Witness ==
    /\ restRequests = {} /\ restResponses = {}
    /\ appError = "Failed to delete item. Please try again."
    /\ Len(mediaItems) = MaxDocs + 1
    /\ mediaItems[1].id > MaxDocs
    /\ Tail(mediaItems) = [i \in Ids |-> RestSeed(i)]

\* ---------------------------------------------------------------------------------------
\* The life of an item in the Firestore app: created by the add form or by accepting a
\* suggestion, then changed by its card. store is the collection, mediaItems the displayed
\* list, both indexed by the order of creation.

\* The suggestions the panel can show: the slots of generateSuggestions and the elements
\* fetchSurpriseSuggestion returns.
ShownSuggestions ==
    {MovieSlot(<<PanelItem("movie")>>, <<PanelItem("book")>>)[1],
     BookSlot(<<PanelItem("movie")>>, <<PanelItem("book")>>)[1],
     SurpriseMapItem(ItemMovie).v,
     SurpriseMapItem(ItemDune).v,
     SurpriseMapItem(ItemNoType).v,
     SurpriseMapItem(WithField(ItemDune, "type", "series")).v}

\* status: suggestion.type === MediaType.Movie ? MediaStatus.ToWatch : MediaStatus.ToRead
\* Variant: every accepted suggestion starts as to-watch.
SuggestionStatus_AlwaysToWatch(type) == "to-watch"
SuggestionStatus(type) == IF type = "movie" THEN "to-watch" ELSE "to-read"

\* The record handleAddSuggestion passes to onAddItem.
SuggestionItem(suggestion) ==
    [type |-> Prop(suggestion, "type"),
     title |-> Prop(suggestion, "title"),
     status |-> SuggestionStatus(Prop(suggestion, "type")),
     rating |-> JsNull]

\* handleAddItem of the Firestore app with a user signed in: the guards, then addDoc, which
\* writes the local cache at once.
AddItem(newItemData) ==
    /\ IF newItemData.title \in {"", "<undefined>"}
       THEN /\ appError' = "Cannot add item: Missing title, type, or status."
            /\ UNCHANGED store
       ELSE IF Exists(mediaItems, newItemData)
       THEN /\ appError' = AlreadyInList(newItemData.title)
            /\ UNCHANGED store
       ELSE /\ Len(store) < MaxDocs
            /\ appError' = "null"
            /\ store' = Append(store, [type |-> newItemData.type, title |-> newItemData.title,
                                       status |-> newItemData.status, rating |-> newItemData.rating])
    /\ UNCHANGED <<backend, card, mediaItems, sent, restRequests, restResponses, clock, nonStoreVars>>

\* handleSubmit of the add form got this result from fetchMediaDetails.
FormAdd(result) ==
    AddItem([type |-> NewItem(result).type, title |-> NewItem(result).title,
             status |-> NewItem(result).status, rating |-> NewItem(result).rating])

\* The add button of a shown suggestion is clicked.
SuggestionAdd(suggestion) == AddItem(SuggestionItem(suggestion))

LifeInit ==
    /\ apiKey = "key"
    /\ AiIdle
    /\ SdkIdle
    /\ FormIdle
    /\ PanelIdle
    /\ FireIdle
    /\ backend = "firestore"
    /\ card \in {"toggle", "cycle"}
    /\ store = <<>>
    /\ mediaItems = <<>>
    /\ appError = "null"
    /\ sent = 0
    /\ restRequests = {}
    /\ restResponses = {}
    /\ clock = 0

LifeNext ==
    \/ \E result \in SubmitObjects : FormAdd(result)
    \/ \E suggestion \in ShownSuggestions : SuggestionAdd(suggestion)
    \/ \E i \in Ids : StatusClick(i)
    \/ Snapshot

LifeSpec == LifeInit /\ [][LifeNext]_vars

\* The statuses of a kind of item.
OwnStatuses(type) ==
    IF type = "movie" THEN {"to-watch", "watching", "watched"}
    ELSE IF type = "book" THEN {"to-read", "reading", "read"}
    ELSE {}

\* The first status of a kind of item.
OwnPending(type) == IF type = "movie" THEN "to-watch" ELSE IF type = "book" THEN "to-read" ELSE "none"

\* C30: an item created through the add form or by accepting a suggestion is a movie or a
\* book and starts in the pending status of its kind, and whatever status transitions follow,
\* its status, stored and displayed, is one of the statuses of its kind.
C30_StatusOfOwnKind ==
    /\ [](\A i \in DOMAIN store :
            /\ store[i].type \in {"movie", "book"}
            /\ store[i].status \in OwnStatuses(store[i].type))
    /\ [](\A i \in DOMAIN mediaItems : mediaItems[i].status \in OwnStatuses(mediaItems[i].type))
    /\ [][Len(store') > Len(store) =>
            store'[Len(store')].status = OwnPending(store'[Len(store')].type)]_vars

\* A movie and a book were created, and the card has taken each through a transition.
C30_Witness ==
    /\ Len(mediaItems) = 2
    /\ \E i, j \in DOMAIN mediaItems :
        /\ mediaItems[i].type = "movie" /\ mediaItems[i].status \in {"watching", "watched"}
        /\ mediaItems[j].type = "book" /\ mediaItems[j].status \in {"reading", "read"}
====
